---- MODULE Spec2Model ----
(***************************************************************************)
(* Model of the fine-arts budget dashboard generators.                     *)
(*                                                                         *)
(* Text is modelled as a sequence of one-character strings so that the     *)
(* substring tests, case conversions, trimming and number formatting of    *)
(* the Python code are computed, not assumed.  Amounts are integer-valued   *)
(* floats.  A spreadsheet cell is a record [k, v, s]: kind "nan" (missing), *)
(* "float" or "int" (numeric value v) or "str" (text s).                   *)
(***************************************************************************)
EXTENDS Integers, Sequences, FiniteSets, TLC

(* ------------------------------ bounds --------------------------------- *)

\* longest grid drawn from the full row alphabet
MaxRows == 2

\* longest run of blank rows between fund-context rows and a subtotal row
MaxGap == 10

\* longest run of fund-context rows put above the gap
MaxContext == 2

\* longest grid of compensation and totals rows
MaxSummaryRows == 3

(* --------------------------- text helpers ------------------------------ *)

LowerChars == <<"a","b","c","d","e","f","g","h","i","j","k","l","m",
                "n","o","p","q","r","s","t","u","v","w","x","y","z">>

UpperChars == <<"A","B","C","D","E","F","G","H","I","J","K","L","M",
                "N","O","P","Q","R","S","T","U","V","W","X","Y","Z">>

DigitChars == <<"0","1","2","3","4","5","6","7","8","9">>

\* index of c in the sequence q, 0 when absent
IndexOf(q, c) ==
    IF \E k \in 1..Len(q) : q[k] = c
    THEN CHOOSE k \in 1..Len(q) : q[k] = c
    ELSE 0

\* str.upper()
Upper(s) ==
    [k \in 1..Len(s) |->
        IF IndexOf(LowerChars, s[k]) > 0
        THEN UpperChars[IndexOf(LowerChars, s[k])]
        ELSE s[k]]

\* str.lower()
Lower(s) ==
    [k \in 1..Len(s) |->
        IF IndexOf(UpperChars, s[k]) > 0
        THEN LowerChars[IndexOf(UpperChars, s[k])]
        ELSE s[k]]

\* Python's  p in s  on strings
Contains(s, p) ==
    \E k \in 1..(Len(s) - Len(p) + 1) : SubSeq(s, k, k + Len(p) - 1) = p

\* str.endswith
EndsWith(s, p) ==
    /\ Len(s) >= Len(p)
    /\ SubSeq(s, Len(s) - Len(p) + 1, Len(s)) = p

\* str.strip()
RECURSIVE LStrip(_)
LStrip(s) ==
    IF s # <<>> /\ Head(s) = " " THEN LStrip(Tail(s)) ELSE s

RECURSIVE RStrip(_)
RStrip(s) ==
    IF s # <<>> /\ s[Len(s)] = " "
    THEN RStrip(SubSeq(s, 1, Len(s) - 1))
    ELSE s

Strip(s) == RStrip(LStrip(s))

\* decimal digits of a natural number
RECURSIVE NatStr(_)
NatStr(n) ==
    IF n < 10
    THEN <<DigitChars[n + 1]>>
    ELSE NatStr(n \div 10) \o <<DigitChars[(n % 10) + 1]>>

\* str() of an integer
IntStr(n) == IF n < 0 THEN <<"-">> \o NatStr(0 - n) ELSE NatStr(n)

\* value of a digit string
RECURSIVE DigitsVal(_)
DigitsVal(s) ==
    IF s = <<>>
    THEN 0
    ELSE 10 * DigitsVal(SubSeq(s, 1, Len(s) - 1))
         + (IndexOf(DigitChars, s[Len(s)]) - 1)

IsDigits(s) ==
    /\ s # <<>>
    /\ \A k \in 1..Len(s) : IndexOf(DigitChars, s[k]) > 0

(* ------------------------------ cells ---------------------------------- *)

NaN == [k |-> "nan", v |-> 0, s |-> <<>>]

FloatCell(n) == [k |-> "float", v |-> n, s |-> <<>>]

IntCell(n) == [k |-> "int", v |-> n, s |-> <<>>]

StrCell(t) == [k |-> "str", v |-> 0, s |-> t]

\* str(v) of a cell value: a float prints with its fraction ("506.0"),
\* a missing value prints as "nan"
PyStr(c) ==
    CASE c.k = "nan"   -> <<"n","a","n">>
      [] c.k = "float" -> IntStr(c.v) \o <<".","0">>
      [] c.k = "int"   -> IntStr(c.v)
      [] OTHER         -> c.s

\* safe_str
safe_str(c) ==
    LET s == Strip(PyStr(c))
    IN  IF s = <<"n","a","n">> THEN <<>> ELSE s

\* the texts float() accepts, among the texts of the model: an optional
\* sign, digits and an optional all-zero fraction, surrounded by blanks
Unsigned(t) == IF t # <<>> /\ Head(t) = "-" THEN Tail(t) ELSE t

IntPart(t) ==
    LET d == IndexOf(t, ".")
    IN  IF d = 0 THEN t ELSE SubSeq(t, 1, d - 1)

FracPart(t) ==
    LET d == IndexOf(t, ".")
    IN  IF d = 0 THEN <<>> ELSE SubSeq(t, d + 1, Len(t))

IsNumberText(s) ==
    LET t == Unsigned(Strip(s))
    IN  /\ IsDigits(IntPart(t))
        /\ \A k \in 1..Len(FracPart(t)) : FracPart(t)[k] = "0"

NumberTextVal(s) ==
    LET t == Strip(s)
        m == DigitsVal(IntPart(Unsigned(t)))
    IN  IF t # <<>> /\ Head(t) = "-" THEN 0 - m ELSE m

\* safe_float
safe_float(c, default) ==
    CASE c.k = "nan" -> default
      [] c.k \in {"float", "int"} -> c.v
      [] OTHER -> IF IsNumberText(c.s) THEN NumberTextVal(c.s) ELSE default

(* ----------------------- the safe_float variants ------------------------ *)

\* a cell that is neither missing, a number nor a text (a date)
DateCell == [k |-> "date", v |-> 0, s |-> <<>>]

\* what a conversion returns: a finite number, or an infinity
Num(n) == [kind |-> "num", v |-> n]

Inf(sign) == [kind |-> "inf", v |-> sign]

InfTexts == {<<"i","n","f">>, <<"i","n","f","i","n","i","t","y">>}

\* float(s) of a text: ok is FALSE where float raises ValueError
float_of_text(s) ==
    LET t == Lower(Strip(s))
    IN  IF IsNumberText(s)
        THEN [ok |-> TRUE, out |-> Num(NumberTextVal(s))]
        ELSE IF Unsigned(t) \in InfTexts
        THEN [ok |-> TRUE,
              out |-> Inf(IF Head(t) = "-" THEN 0 - 1 ELSE 1)]
        ELSE [ok |-> FALSE, out |-> Num(0)]

\* generate_tracking.py safe_float, with what leaves it: float(v) inside
\* the try, ValueError and TypeError caught
safe_float_tracking(c, default) ==
    CASE c.k = "nan" -> [raised |-> FALSE, out |-> Num(default)]
      [] c.k \in {"float", "int"} -> [raised |-> FALSE, out |-> Num(c.v)]
      [] c.k = "str" ->
             [raised |-> FALSE,
              out |-> IF float_of_text(c.s).ok
                      THEN float_of_text(c.s).out
                      ELSE Num(default)]
      [] OTHER -> [raised |-> FALSE, out |-> Num(default)]

\* mutant of re_sub: the text is left as it is
re_sub_nothing(s) == s

\* re.sub(r'[^\d\.\-]', '', s): the digits, points and minus signs of s
re_sub(s) ==
    LET Kept(ch) == IndexOf(DigitChars, ch) > 0 \/ ch = "." \/ ch = "-"
    IN  SelectSeq(s, Kept)

\* generate_fiscal_year.py and generate_fy26.py safe_float
safe_float_fiscal(c, default) ==
    CASE c.k = "nan" -> [raised |-> FALSE, out |-> Num(default)]
      [] c.k \in {"float", "int"} -> [raised |-> FALSE, out |-> Num(c.v)]
      [] c.k = "str" ->
             LET cleaned == re_sub(c.s)
             IN  [raised |-> FALSE,
                  out |-> IF cleaned # <<>> /\ float_of_text(cleaned).ok
                          THEN float_of_text(cleaned).out
                          ELSE Num(default)]
      [] OTHER -> [raised |-> FALSE, out |-> Num(default)]

\* texts of cells
FY26Text == <<"F","Y","2","6">>

NaText == <<"n","/","a">>

EstText == <<"$","1",",","2","0","0"," ","e","s","t",".">>

CoerceTexts ==
    {FY26Text, NaText, EstText, <<"1","2","0","0">>, <<" ","1","2"," ">>, <<"-","5">>, <<"1","2",".","0">>, <<>>, <<" "," "," ">>,
     <<"a","b","c">>, <<"-">>, <<".">>, <<"1",".","2",".","3">>, <<"1","2","-","3">>, <<"-","-","5">>, <<"i","n","f">>, <<"-","I","n","f","i","n","i","t","y">>, <<"(","5","0","0",")">>,
     <<"$","-","7",".","0","0">>, <<"F","Y","-","2","6">>, <<"3"," ","o","f"," ","4">>, <<"T","B","D"," ","2","0","2","6">>}

CoerceCells ==
    {NaN, DateCell, FloatCell(0), FloatCell(1200), FloatCell(0 - 250),
     IntCell(26), IntCell(0)}
    \cup {StrCell(t) : t \in CoerceTexts}

\* the defaults the callers pass: none (0.0) or their own
CoerceDefaults == {0, 5}

\* not called yet
NotCalled == [raised |-> FALSE, out |-> [kind |-> "none", v |-> 0]]

(* ----------------------------- cat_map --------------------------------- *)

cat_map_items ==
    <<
       <<<<"5","0",".","0">>,
         <<"S","t","u","d","i","o","s","/","C","o","u","r","s","e","s">>>>,
       <<<<"5","4",".","0">>,
         <<"C","h","a","i","r"," ","E","x","p","e","n","s","e","s">>>>,
       <<<<"5","5",".","0">>,
         <<"D","e","p","a","r","t","m","e","n","t"," ","A","d","m","i","n","i","s","t","r","a","t","i","v","e">>>>,
       <<<<"5","6",".","0">>,
         <<"A","d","m","i","s","s","i","o","n","s"," ","&"," ","R","e","c","r","u","i","t","m","e","n","t">>>>,
       <<<<"5","8",".","0">>,
         <<"P","r","o","m","o","t","i","o","n"," ","o","f"," ","D","e","p","a","r","t","m","e","n","t">>>>,
       <<<<"6","1",".","0">>,
         <<"D","e","p","a","r","t","m","e","n","t","a","l"," ","E","v","e","n","t","s">>>>,
       <<<<"6","2",".","0">>,
         <<"L","e","c","t","u","r","e"," ","S","e","r","i","e","s">>>>,
       <<<<"5","0","3",".","0">>,
         <<"E","x","h","i","b","i","t","i","o","n","s">>>>,
       <<<<"5","0","5",".","0">>,
         <<"P","a","i","n","t","i","n","g","/","D","r","a","w","i","n","g">>>>,
       <<<<"5","0","6",".","0">>,
         <<"P","r","i","n","t","m","a","k","i","n","g">>>>,
       <<<<"5","0","7",".","0">>,
         <<"S","c","u","l","p","t","u","r","e">>>>,
       <<<<"5","0","9",".","0">>,
         <<"V","i","d","e","o">>>>,
       <<<<"5","1","1",".","0">>,
         <<"A","n","i","m","a","t","i","o","n">>>>,
       <<<<"5","1","3",".","0">>,
         <<"D","i","g","i","t","a","l"," ","D","e","s","i","g","n">>>>,
       <<<<"5","1","5",".","0">>,
         <<"P","h","o","t","o","g","r","a","p","h","y"," ","I","n","s","t","r","u","c","t","i","o","n","a","l">>>>,
       <<<<"5","4","8",".","0">>,
         <<"M","F","A"," ","T","h","e","s","i","s"," ","E","x","h","i","b","i","t","i","o","n">>>>,
       <<<<"5","6","1",".","0">>,
         <<"M","F","A"," ","S","e","n","i","o","r"," ","C","r","i","t","i","c","s">>>>,
       <<<<"5","6","2",".","0">>,
         <<"M","F","A"," ","R","e","v","i","e","w","s">>>>,
       <<<<"5","6","5",".","0">>,
         <<"M","F","A"," ","W","o","r","k","s","h","o","p","s">>>>,
       <<<<"5","6","9",".","0">>,
         <<"P","h","o","t","o","g","r","a","p","h","y"," ","C","o","n","s","u","m","a","b","l","e","s">>>>,
       <<<<"5","9","2",".","0">>,
         <<"S","e","n","i","o","r"," ","S","e","m","i","n","a","r">>>>
    >>

cat_map_keys == {cat_map_items[k][1] : k \in 1..Len(cat_map_items)}

\* dict.get(key, default) on cat_map
cat_map_get(key, default) ==
    IF key \in cat_map_keys
    THEN cat_map_items[CHOOSE k \in 1..Len(cat_map_items) :
                          cat_map_items[k][1] = key][2]
    ELSE default

(* ------------------------------- grid ---------------------------------- *)

\* Column indices: 5=Budget, 6=FYTD Actuals, 7=Committed, 8=Available
B == 5

A == 6

C == 7

AV == 8

\* len(df)
NRows(df) == Len(df)

\* df.shape[1]
NCols(df) == IF Len(df) = 0 THEN 0 ELSE Len(df[1])

\* df.iloc[i, j] is defined (no IndexError) for 0-based i, j
InGrid(df, i, j) == i >= 0 /\ i < NRows(df) /\ j >= 0 /\ j < NCols(df)

\* df.iloc[i, j], 0-based
iloc(df, i, j) == df[i + 1][j + 1]

\* a Python dict is a function from its keys; {} has no key
EmptyDict == [x \in {} |-> 0]

\* dict.get(key, default)
Get(d, key, default) == IF key \in DOMAIN d THEN d[key] ELSE default

Max(a, b) == IF a >= b THEN a ELSE b

Min(a, b) == IF a <= b THEN a ELSE b

\* mutant of row: available is computed from the other three amounts
row_computed(df, i) ==
    LET b == IF NCols(df) > B THEN safe_float(iloc(df, i, B), 0) ELSE 0
        a == IF NCols(df) > A THEN safe_float(iloc(df, i, A), 0) ELSE 0
        c == IF NCols(df) > C THEN safe_float(iloc(df, i, C), 0) ELSE 0
    IN  [label     |-> IF NCols(df) > 4 THEN safe_str(iloc(df, i, 4)) ELSE <<>>,
         cat       |-> IF NCols(df) > 3 THEN safe_str(iloc(df, i, 3)) ELSE <<>>,
         section   |-> IF NCols(df) > 2 THEN safe_float(iloc(df, i, 2), 0) ELSE 0,
         fund      |-> IF NCols(df) > 1 THEN safe_str(iloc(df, i, 1)) ELSE <<>>,
         budget    |-> b,
         actuals   |-> a,
         committed |-> c,
         available |-> b - a - c]

\* row(i): the dict built for row i
row(df, i) ==
    [label     |-> IF NCols(df) > 4 THEN safe_str(iloc(df, i, 4)) ELSE <<>>,
     cat       |-> IF NCols(df) > 3 THEN safe_str(iloc(df, i, 3)) ELSE <<>>,
     section   |-> IF NCols(df) > 2 THEN safe_float(iloc(df, i, 2), 0) ELSE 0,
     fund      |-> IF NCols(df) > 1 THEN safe_str(iloc(df, i, 1)) ELSE <<>>,
     budget    |-> IF NCols(df) > B THEN safe_float(iloc(df, i, B), 0) ELSE 0,
     actuals   |-> IF NCols(df) > A THEN safe_float(iloc(df, i, A), 0) ELSE 0,
     committed |-> IF NCols(df) > C THEN safe_float(iloc(df, i, C), 0) ELSE 0,
     available |-> IF NCols(df) > AV THEN safe_float(iloc(df, i, AV), 0) ELSE 0]

\* find_row(label_col, pattern): first matching row, -1 for None
find_row(df, label_col, pattern) ==
    LET hits == {i \in 0..(NRows(df) - 1) :
                    Contains(Lower(safe_str(iloc(df, i, label_col))),
                             Lower(pattern))}
    IN  IF hits = {} THEN -1
        ELSE CHOOSE i \in hits : \A k \in hits : i <= k

\* find_row reads column label_col of every row it visits
find_row_raises(df, label_col) == NRows(df) > 0 /\ label_col >= NCols(df)

(* ------------------------ labels of the sheet --------------------------- *)

AcademicLabel == <<"A","c","a","d","e","m","i","c"," ","S","a","l","a","r","i","e","s">>

NonAcademicLabel == <<"N","o","n","-","A","c","a","d","e","m","i","c"," ","S","a","l","a","r","i","e","s">>

CETotalLabel == <<"S","u","b","t","o","t","a","l"," ","-"," ","C","u","r","r","e","n","t"," ","E","x","p","e","n","s","e">>

TotalExpLabel == <<"T","O","T","A","L"," ","E","X","P","E","N","D","I","T","U","R","E","S">>

UNDERGRAD == <<"U","N","D","E","R","G","R","A","D">>

UGRAD == <<"U","G","R","A","D">>

GRADUATE == <<"G","R","A","D","U","A","T","E">>

GRAD == <<"G","R","A","D">>

UgFundCode == <<"4","1","1","8">>

GradFundCode == <<"4","1","1","9">>

SectionPrefix == <<"S","e","c","t","i","o","n"," ">>

DotZero == <<".","0">>

(* --------------------- category loop, lines 119-145 --------------------- *)

\* mutant of IsSubtotalRow: only rows below a "CURRENT EXPENSE" header
\* count
IsSubtotalRow_gated(df, i) ==
    /\ \E h \in 0..(i - 1) :
           Contains(Lower(safe_str(iloc(df, h, 0))),
                    Lower(<<"C","U","R","R","E","N","T"," ",
                            "E","X","P","E","N","S","E">>))
    /\ safe_str(iloc(df, i, 0)) = <<>>
    /\ safe_str(iloc(df, i, 2)) # <<>>
    /\ safe_str(iloc(df, i, 4)) = <<>>

\* mutant of IsSubtotalRow: the fund-description cell must be empty too
\* and the code "0.0" does not count
IsSubtotalRow_sentinel(df, i) ==
    /\ safe_str(iloc(df, i, 0)) = <<>>
    /\ safe_str(iloc(df, i, 1)) = <<>>
    /\ safe_str(iloc(df, i, 2)) # <<>>
    /\ safe_str(iloc(df, i, 2)) # <<"0",".","0">>
    /\ safe_str(iloc(df, i, 4)) = <<>>

\* the test of line 124: blank c0, a section number in c2, no label in c4
IsSubtotalRow(df, i) ==
    /\ safe_str(iloc(df, i, 0)) = <<>>
    /\ safe_str(iloc(df, i, 2)) # <<>>
    /\ safe_str(iloc(df, i, 4)) = <<>>

\* mutant of section_key: the key is the cell text as read
section_key_raw(c2) == c2

\* line 125
section_key(c2) == IF EndsWith(c2, DotZero) THEN c2 ELSE c2 \o DotZero

\* line 126
category_name(c2) == cat_map_get(section_key(c2), SectionPrefix \o c2)

\* line 129
section_code(c2) == c2

\* mutant of list_append: the record is put at the head of the list
list_append_front(list, r) == <<r>> \o list

\* lines 133, 135, 143, 145: list.append(r)
list_append(list, r) == Append(list, r)

\* mutant of category_record: a label in column 4 of the row right above
\* names the record
category_record_pending(df, i) ==
    LET c2 == safe_str(iloc(df, i, 2))
        r  == row(df, i)
        pending == IF i > 0 THEN safe_str(iloc(df, i - 1, 4)) ELSE <<>>
    IN  [label |-> r.label, cat |-> r.cat, section |-> r.section,
         fund |-> r.fund, budget |-> r.budget, actuals |-> r.actuals,
         committed |-> r.committed, available |-> r.available,
         name |-> IF pending # <<>> THEN pending ELSE category_name(c2),
         section_code |-> section_code(c2)]

\* lines 127-129
category_record(df, i) ==
    LET c2 == safe_str(iloc(df, i, 2))
        r  == row(df, i)
    IN  [label |-> r.label, cat |-> r.cat, section |-> r.section,
         fund |-> r.fund, budget |-> r.budget, actuals |-> r.actuals,
         committed |-> r.committed, available |-> r.available,
         name |-> category_name(c2), section_code |-> section_code(c2)]

\* mutant of FundLabel: the GRAD test runs before the UNDERGRAD test
FundLabel_grad_first(fc) ==
    IF Contains(Upper(fc), GRADUATE) \/ Contains(Upper(fc), GRAD)
    THEN "grad"
    ELSE IF Contains(Upper(fc), UNDERGRAD) \/ Contains(Upper(fc), UGRAD)
         THEN "ug"
         ELSE "none"

\* the substring tests of lines 132-135 and 140-144 on a fund description
FundLabel(fc) ==
    IF Contains(Upper(fc), UNDERGRAD) \/ Contains(Upper(fc), UGRAD)
    THEN "ug"
    ELSE IF Contains(Upper(fc), GRADUATE) \/ Contains(Upper(fc), GRAD)
         THEN "grad"
         ELSE "none"

\* mutant of LookStop: the lookback has no bound
LookStop_unbounded(i) == -1

\* the exclusive end of range(i - 1, max(i - 10, -1), -1), line 138
LookStop(i) == Max(i - 10, -1)

\* the rows the lookback of line 138 visits, nearest first
LookRows(i) == {k \in 0..(i - 1) : k > LookStop(i)}

\* mutant of Lookback: the nearest visited row with a non-empty fund cell
\* decides, whatever it reads
Lookback_first_nonempty(df, i) ==
    LET hits == {k \in LookRows(i) : safe_str(iloc(df, k, 1)) # <<>>}
    IN  IF hits = {} THEN "none"
        ELSE FundLabel(safe_str(iloc(df,
                 CHOOSE k \in hits : \A m \in hits : k >= m, 1)))

\* lines 138-145: the nearest visited row whose fund cell carries a label
Lookback(df, i) ==
    LET hits == {k \in LookRows(i) :
                    FundLabel(safe_str(iloc(df, k, 1))) # "none"}
    IN  IF hits = {} THEN "none"
        ELSE FundLabel(safe_str(iloc(df,
                 CHOOSE k \in hits : \A m \in hits : k >= m, 1)))

\* lines 131-145: the list the record of subtotal row i is appended to
FundGroup(df, i) ==
    LET c1 == safe_str(iloc(df, i, 1))
    IN  IF FundLabel(c1) # "none" THEN FundLabel(c1)
        ELSE IF c1 = <<>> THEN Lookback(df, i)
        ELSE "none"

(* --------------- fund totals, lines 147-159, and pct ------------------- *)

\* mutant of IsUgTotalRow: the fund code alone decides
IsUgTotalRow_code_only(df, i) == safe_str(iloc(df, i, 0)) = UgFundCode

IsUgTotalRow(df, i) ==
    /\ safe_str(iloc(df, i, 0)) = UgFundCode
    /\ \/ Contains(Upper(safe_str(iloc(df, i, 1))), UGRAD)
       \/ Contains(Upper(safe_str(iloc(df, i, 1))), UNDERGRAD)

IsGradTotalRow(df, i) ==
    /\ ~IsUgTotalRow(df, i)
    /\ safe_str(iloc(df, i, 0)) = GradFundCode
    /\ Contains(Upper(safe_str(iloc(df, i, 1))), GRAD)

\* the dict a loop leaves when it overwrites it at every row of hits
LastRowDict(df, hits, name) ==
    IF hits = {} THEN EmptyDict
    ELSE LET i == CHOOSE k \in hits : \A m \in hits : k >= m
             r == row(df, i)
         IN  [label |-> r.label, cat |-> r.cat, section |-> r.section,
              fund |-> r.fund, budget |-> r.budget, actuals |-> r.actuals,
              committed |-> r.committed, available |-> r.available,
              name |-> name]

\* row(k) if k is not None else {}
RowOrEmpty(df, k) == IF k >= 0 THEN row(df, k) ELSE EmptyDict

\* pct: None when budget == 0, else the quotient actuals * 100 / budget
pct(actuals, budget) ==
    IF budget = 0
    THEN [none |-> TRUE, num |-> 0, den |-> 1]
    ELSE [none |-> FALSE, num |-> actuals * 100, den |-> budget]

\* mutant of Tenths: the quotient is truncated to a tenth
Tenths_truncated(num, den) == {(num * 10) \div den}

\* the tenths a quotient num / den >= 0 can be formatted to by ':.1f':
\* the nearest tenth; at an exact tie the binary value decides, so both
\* neighbours are possible
Tenths(num, den) ==
    LET q == (num * 10) \div den
        r == (num * 10) % den
    IN  IF 2 * r < den THEN {q}
        ELSE IF 2 * r > den THEN {q + 1}
        ELSE {q, q + 1}

\* the text of t tenths followed by a percent sign, f'{x:.1f}%'
PctText(t) == NatStr(t \div 10) \o <<".">> \o NatStr(t % 10) \o <<"%">>

NALabel == <<"N","/","A">>

\* line 276: the labels pct_label can take
pct_labels(p) ==
    IF p.none THEN {NALabel}
    ELSE {PctText(t) : t \in Tenths(p.num, p.den)}

(* --------------------------- page rendering ----------------------------- *)

\* three digits of a thousands group
Pad3(n) ==
    <<DigitChars[(n \div 100) + 1], DigitChars[((n \div 10) % 10) + 1],
      DigitChars[(n % 10) + 1]>>

\* the ',' format of a natural number: groups of three digits
RECURSIVE Grouped(_)
Grouped(n) ==
    IF n < 1000
    THEN NatStr(n)
    ELSE Grouped(n \div 1000) \o <<",">> \o Pad3(n % 1000)

\* fmt(v), f'${v:,.2f}', of a whole amount
fmt(v) ==
    <<"$">> \o (IF v < 0 THEN <<"-">> \o Grouped(0 - v) ELSE Grouped(v))
    \o <<".","0","0">>

\* the em dash shown in place of a zero amount
Dash == <<"-","-">>

\* the outcome of a division by zero
ZeroDivisionError == [kind |-> "ZeroDivisionError"]

\* line 195: the bar of a record without budget
NoBudgetBar(spent) ==
    [kind |-> "no-budget",
     text |-> <<"N","o"," ","b","u","d","g","e","t"," ","a","l","l","o","c","a","t","e","d"," ">> \o Dash \o <<" ">> \o fmt(spent)
              \o <<" ","s","p","e","n","t">>]

\* lines 197-212: the bar of a record with budget; every quantity is a
\* quotient by budget, kept exact as numerator and denominator
BudgetBar(spent, budget, committed) ==
    IF budget = 0
    THEN ZeroDivisionError
    ELSE LET over == (spent + committed) * 100 > 100 * budget
             warn == (spent + committed) * 100 > 85 * budget
         IN  [kind      |-> "bar",
              spent_num |-> Min(spent * 100, 100 * budget),
              committed_num |->
                  Min(committed * 100,
                      Max(0, 100 * budget - Min(spent * 100, 100 * budget))),
              den       |-> budget,
              over      |-> over,
              bar_class |-> IF over THEN "bar-over"
                            ELSE IF warn THEN "bar-warn" ELSE "bar-ok",
              label_num |-> spent * 100]

\* mutant of progress_bar: only a negative budget takes the placeholder
progress_bar_negative_only(spent, budget, committed) ==
    IF budget < 0
    THEN NoBudgetBar(spent)
    ELSE BudgetBar(spent, budget, committed)

\* progress_bar(spent, budget, committed)
progress_bar(spent, budget, committed) ==
    IF budget <= 0
    THEN NoBudgetBar(spent)
    ELSE BudgetBar(spent, budget, committed)

\* lines 240-258: one row of a category table
table_row(r) ==
    LET b  == Get(r, "budget", 0)
        a  == Get(r, "actuals", 0)
        co == Get(r, "committed", 0)
        av == Get(r, "available", 0)
        total_used == a + co
        is_over == b > 0 /\ total_used > b
        is_warn == b > 0 /\ total_used * 100 > 85 * b /\ ~is_over
    IN  [name      |-> Get(r, "name", Get(r, "cat", <<>>)),
         row_class |-> IF is_over THEN "row-over"
                       ELSE IF is_warn THEN "row-warn" ELSE "",
         budget    |-> IF b # 0 THEN fmt(b) ELSE Dash,
         actuals   |-> fmt(a),
         committed |-> IF co # 0 THEN fmt(co) ELSE Dash,
         available |-> fmt(av),
         av_class  |-> IF av < 0 THEN "neg" ELSE "",
         progress  |-> progress_bar(a, b, co)]

\* the code the sheet gives to a generic aggregate row
PlaceholderCodes == {<<"0",".","0">>}

\* a record's code is none of the placeholder codes
NotPlaceholder(r) == Get(r, "section_code", <<>>) \notin PlaceholderCodes

\* mutant of section_table: records with a placeholder code get no row
section_table_excluding(rows) ==
    LET kept == SelectSeq(rows, NotPlaceholder)
    IN  [over_count |->
             Cardinality({k \in 1..Len(kept) :
                 /\ Get(kept[k], "budget", 0) > 0
                 /\ Get(kept[k], "actuals", 0)
                        + Get(kept[k], "committed", 0)
                        > Get(kept[k], "budget", 0)}),
         rows |-> [k \in 1..Len(kept) |-> table_row(kept[k])]]

\* section_table(title, rows): the alert count and one table row for
\* each record of rows, in the order of rows
section_table(rows) ==
    [over_count |->
         Cardinality({k \in 1..Len(rows) :
             /\ Get(rows[k], "budget", 0) > 0
             /\ Get(rows[k], "actuals", 0) + Get(rows[k], "committed", 0)
                    > Get(rows[k], "budget", 0)}),
     rows |-> [k \in 1..Len(rows) |-> table_row(rows[k])]]

\* lines 431-433: pct(...) or 0
pct_or_0(actuals, budget) ==
    IF pct(actuals, budget).none
    THEN [num |-> 0, den |-> 1]
    ELSE [num |-> pct(actuals, budget).num, den |-> pct(actuals, budget).den]

\* lines 384-387 and 406-410: the four amounts of a record, formatted
amounts_of(d) ==
    [budget    |-> fmt(Get(d, "budget", 0)),
     actuals   |-> fmt(Get(d, "actuals", 0)),
     committed |-> fmt(Get(d, "committed", 0)),
     available |-> fmt(Get(d, "available", 0))]

\* the bar of a record of the returned dict
bar_of(d) ==
    progress_bar(Get(d, "actuals", 0), Get(d, "budget", 0),
                 Get(d, "committed", 0))

\* lines 278-450: what the page shows, from the parsed data
page_of(t, ac, na, ce, ug, gr, ugc, grc) ==
    [hero      |-> amounts_of(t),
     total_bar |-> bar_of(t),
     ac_nums   |-> amounts_of(ac),
     ac_bar    |-> bar_of(ac),
     na_nums   |-> amounts_of(na),
     na_bar    |-> bar_of(na),
     ug_pct    |-> pct_or_0(Get(ug, "actuals", 0), Get(ug, "budget", 0)),
     grad_pct  |-> pct_or_0(Get(gr, "actuals", 0), Get(gr, "budget", 0)),
     ce_pct    |-> pct_or_0(Get(ce, "actuals", 0), Get(ce, "budget", 0)),
     ug_table  |-> section_table(ugc),
     grad_table |-> section_table(grc)]

\* the bars of a page
bars_of(p) ==
    {p.total_bar, p.ac_bar, p.na_bar}
    \cup {p.ug_table.rows[k].progress : k \in 1..Len(p.ug_table.rows)}
    \cup {p.grad_table.rows[k].progress : k \in 1..Len(p.grad_table.rows)}

\* the page before generate_tracking_page has run
NoPage == [kind |-> "none"]

(* ------------------------- the PDF report ------------------------------ *)

\* load_data, sf(v): 0.0 for a missing cell and for what float() rejects
sf(v) == safe_float(v, 0)

\* the budget total written into load_data
total_budget == 4241604

\* the cells of FA_Summary load_data reads, by the key each is stored under
SummaryKeys ==
    {"total_comp", "standing_faculty", "other_ft_faculty",
     "parttime_faculty", "total_academic", "nonacademic_comp",
     "current_expenses", "grad_total", "undergrad_total"}

\* part / total * 100 as Python computes it, the quotient kept exact
share(part, total) ==
    IF total = 0
    THEN ZeroDivisionError
    ELSE [kind |-> "pct", num |-> part * 100, den |-> total]

\* build_master_budget: the split of the total budget
master_budget(data) ==
    [comp_pct |-> share(data.total_comp, data.total_budget),
     exp_pct  |-> share(data.current_expenses, data.total_budget)]

\* build_compensation: the share of each faculty type
compensation(data) ==
    [standing |-> share(data.standing_faculty, data.total_academic),
     other_ft |-> share(data.other_ft_faculty, data.total_academic),
     parttime |-> share(data.parttime_faculty, data.total_academic)]

\* build_current_expenses: the graduate and undergraduate shares
current_expenses(data) ==
    [grad      |-> share(data.grad_total, data.current_expenses),
     undergrad |-> share(data.undergrad_total, data.current_expenses)]

\* the values of a record
Values(r) == {r[f] : f \in DOMAIN r}

\* FA_Summary sheets: the cells of the totals are missing, text, zero or
\* an amount
PdfSheets ==
    {[k \in SummaryKeys |->
         CASE k = "total_academic"   -> ta
           [] k = "current_expenses" -> ce
           [] k = "standing_faculty" -> st
           [] k = "grad_total"       -> gt
           [] k = "total_comp"       -> tc
           [] OTHER                  -> FloatCell(500)] :
        ta \in {NaN, StrCell(<<"n","/","a">>), FloatCell(3000)},
        ce \in {NaN, FloatCell(0), FloatCell(2000)},
        st \in {NaN, FloatCell(1000)},
        gt \in {NaN, FloatCell(800)},
        tc \in {NaN, FloatCell(4000)}}

(* ---------------------- fiscal-year configuration ----------------------- *)

\* s with every occurrence of the two-character text p removed, left to
\* right: str.replace(p, '')
RECURSIVE Remove2(_, _)
Remove2(s, p) ==
    IF Len(s) < 2 THEN s
    ELSE IF SubSeq(s, 1, 2) = p THEN Remove2(SubSeq(s, 3, Len(s)), p)
    ELSE <<Head(s)>> \o Remove2(Tail(s), p)

\* the text int() is applied to at line 14
year_digits(year_code) == Remove2(Remove2(year_code, <<"F","Y">>), <<"f","y">>)

\* int() accepts it: an optional minus sign and digits
year_code_ok(year_code) == IsDigits(Unsigned(year_digits(year_code)))

\* parse_year_code(year_code): the year name and the calendar year
parse_year_code(year_code) ==
    LET t == year_digits(year_code)
        n == IF Head(t) = "-" THEN 0 - DigitsVal(Tail(t)) ELSE DigitsVal(t)
    IN  [year |-> <<"F","Y">> \o IntStr(n), full_year |-> 2000 + n]

\* the characters of year names in the order of their code points
CodePointOrder == <<"-">> \o DigitChars \o <<"F", "Y">>

\* a < b as Python compares strings
RECURSIVE StrLess(_, _)
StrLess(a, b) ==
    IF b = <<>> THEN FALSE
    ELSE IF a = <<>> THEN TRUE
    ELSE IF Head(a) = Head(b) THEN StrLess(Tail(a), Tail(b))
    ELSE IndexOf(CodePointOrder, Head(a)) < IndexOf(CodePointOrder, Head(b))

\* e put into the list t, sorted by year descending, before the first
\* entry whose year is not greater
RECURSIVE InsertDesc(_, _)
InsertDesc(e, t) ==
    IF t = <<>> THEN <<e>>
    ELSE IF StrLess(e.year, Head(t).year)
    THEN <<Head(t)>> \o InsertDesc(e, Tail(t))
    ELSE <<e>> \o t

\* list.sort(key=lambda x: x['year'], reverse=True): stable
RECURSIVE sort_desc(_)
sort_desc(s) ==
    IF s = <<>> THEN <<>> ELSE InsertDesc(Head(s), sort_desc(Tail(s)))

\* there is no fiscal_years.json
NoConfig ==
    [present |-> FALSE, fiscal_years |-> <<>>, current_fiscal_year |-> <<>>]

\* mutant of existing_idx: no entry of the year is ever found
existing_idx_none(fiscal_years, year) == 0

\* index of the first entry of the year, 0 for None
existing_idx(fiscal_years, year) ==
    LET hits == {k \in 1..Len(fiscal_years) : fiscal_years[k].year = year}
    IN  IF hits = {} THEN 0 ELSE CHOOSE k \in hits : \A m \in hits : k <= m

\* mutant of not_exists: the budget file is never taken as missing
not_exists_never(found) == FALSE

\* line 31: not Path(budget_file_path).exists()
not_exists(found) == ~found

\* add_fiscal_year(year_code, budget_file_path) on the configuration cfg,
\* found telling whether the budget file exists: what it returns (or
\* raises) and the configuration it leaves
add_fiscal_year(cfg, year_code, budget_file_path, found) ==
    IF not_exists(found)
    THEN [ret |-> "False", config |-> cfg]
    ELSE IF ~year_code_ok(year_code)
    THEN [ret |-> "ValueError", config |-> cfg]
    ELSE LET fy_info == parse_year_code(year_code)
             idx == existing_idx(cfg.fiscal_years, fy_info.year)
             fy_entry == [year |-> fy_info.year,
                          full_year |-> fy_info.full_year,
                          master_budget_file |-> budget_file_path,
                          updated |-> idx # 0]
             list == IF idx # 0
                     THEN [cfg.fiscal_years EXCEPT ![idx] = fy_entry]
                     ELSE Append(cfg.fiscal_years, fy_entry)
         IN  [ret |-> "True",
              config |->
                  [present |-> TRUE,
                   fiscal_years |-> sort_desc(list),
                   current_fiscal_year |->
                       IF cfg.current_fiscal_year = <<>>
                       THEN fy_info.year
                       ELSE cfg.current_fiscal_year]]

\* year codes and budget file paths given on the command line
YearCodes == {<<"F","Y","2","6">>, <<"f","y","9">>, <<"f","y","2","6">>, <<"F","y","2","6">>}

BudgetPaths == {<<"a",".","x","l","s","x">>, <<"b",".","x","l","s","x">>}

CurrentCodes == {<<"f","y","2","6">>, <<"F","Y","2","7">>}

Targets == {<<"a","l","l">>, <<"f","y","2","6">>, <<"F","Y","9">>, <<"F","Y","2","7">>}

ListCommand == <<"l","i","s","t">>

CurrentCommand == <<"c","u","r","r","e","n","t">>

(* ------------------------ course workbook: Sheet1 ----------------------- *)

\* longest sheet of the course workbook
MaxCourseRows == 3

\* str.startswith
StartsWith(s, p) == Len(s) >= Len(p) /\ SubSeq(s, 1, Len(p)) = p

\* pd.notna
notna(c) == c.k # "nan"

\* d[key] = val
Put(d, key, val) ==
    [x \in DOMAIN d \cup {key} |-> IF x = key THEN val ELSE d[x]]

\* pd.read_excel(..., header=None): an empty cell arrives as NaN
read_excel(sheet) == sheet

\* pd.read_excel(..., header=None, na_filter=False): an empty cell
\* arrives as ''
read_excel_na_filter_off(sheet) ==
    [k \in 1..Len(sheet) |->
        [j \in 1..Len(sheet[k]) |->
            IF sheet[k][j] = NaN THEN StrCell(<<>>) ELSE sheet[k][j]]]

NOTE_PATTERNS == {<<"$">>, <<"P","h","o","t","o","/","V","i","d","e","o"," ","E","q","u","i","p","m","e","n","t"," ","R","o","o","m">>}

\* any(entry.startswith(pat) or entry == pat for pat in NOTE_PATTERNS)
is_note(entry) ==
    \E pat \in NOTE_PATTERNS : StartsWith(entry, pat) \/ entry = pat

\* current_category = None / cur = None
NoCategory == [none |-> TRUE, name |-> <<>>]

Category(name) == [none |-> FALSE, name |-> name]

\* truth value of a category variable: neither None nor ''
Truthy(cat) == ~cat.none /\ cat.name # <<>>

\* extract_course_data: the state before the loop
extract_start ==
    [current_category |-> NoCategory, categories |-> EmptyDict,
     category_notes |-> EmptyDict]

\* extract_course_data: one iteration of the loop, on row i of df
extract_course_row(st, df, i) ==
    LET col0 == iloc(df, i, 0)
        col1 == iloc(df, i, 1)
        current_category ==
            IF notna(col0) THEN Category(Strip(PyStr(col0)))
            ELSE st.current_category
        categories ==
            IF notna(col0)
            THEN Put(st.categories, current_category.name, <<>>)
            ELSE st.categories
        category_notes ==
            IF notna(col0)
            THEN Put(st.category_notes, current_category.name, <<>>)
            ELSE st.category_notes
        entry == Strip(PyStr(col1))
        course_name ==
            IF NCols(df) > 2 /\ notna(iloc(df, i, 2))
            THEN Strip(PyStr(iloc(df, i, 2)))
            ELSE <<>>
        name == current_category.name
    IN  IF ~(notna(col1) /\ Truthy(current_category)) \/ entry = <<>>
        THEN [current_category |-> current_category,
              categories |-> categories,
              category_notes |-> category_notes]
        ELSE IF is_note(entry)
        THEN [current_category |-> current_category,
              categories |-> categories,
              category_notes |->
                  Put(category_notes, name,
                      Append(category_notes[name], entry))]
        ELSE [current_category |-> current_category,
              categories |->
                  Put(categories, name,
                      Append(categories[name],
                             [code |-> entry, name |-> course_name])),
              category_notes |-> category_notes]

\* load_data, Sheet1 loop: the state before the loop
load_data_start ==
    [cur |-> NoCategory, cat_courses |-> EmptyDict, cat_notes |-> EmptyDict]

\* load_data, Sheet1 loop: one iteration, on row i of df_s1
load_data_row(st, df_s1, i) ==
    LET c0 == Strip(PyStr(iloc(df_s1, i, 0)))
        c1 == Strip(PyStr(iloc(df_s1, i, 1)))
        c2 == IF NCols(df_s1) > 2 THEN Strip(PyStr(iloc(df_s1, i, 2)))
              ELSE <<>>
        cur == IF c0 # <<>> THEN Category(c0) ELSE st.cur
        cat_courses ==
            IF c0 # <<>> THEN Put(st.cat_courses, c0, <<>>)
            ELSE st.cat_courses
        cat_notes ==
            IF c0 # <<>> THEN Put(st.cat_notes, c0, <<>>) ELSE st.cat_notes
    IN  IF ~(c1 # <<>> /\ Truthy(cur))
        THEN [cur |-> cur, cat_courses |-> cat_courses,
              cat_notes |-> cat_notes]
        ELSE IF is_note(c1)
        THEN [cur |-> cur, cat_courses |-> cat_courses,
              cat_notes |->
                  Put(cat_notes, cur.name, Append(cat_notes[cur.name], c1))]
        ELSE [cur |-> cur,
              cat_courses |->
                  Put(cat_courses, cur.name,
                      Append(cat_courses[cur.name],
                             [code |-> c1, name |-> c2])),
              cat_notes |-> cat_notes]

\* rows of Sheet1: a category header with a course on its row, a second
\* category header, a course with padded cells, the two kinds of notes, a
\* row whose first cell holds one space, a row whose second cell holds
\* spaces only
SheetRows ==
    {<<StrCell(<<"P","r","i","n","t","m","a","k","i","n","g">>), StrCell(<<"F","N","A","R"," ","1">>), StrCell(<<"I","n","t","r","o">>)>>,
     <<StrCell(<<"P","a","i","n","t","i","n","g">>), NaN, NaN>>,
     <<NaN, StrCell(<<" ","F","N","A","R"," ","2"," ">>), StrCell(<<" ","D","r","a","w","i","n","g"," ">>)>>,
     <<NaN, StrCell(<<"$","5","0","0"," ","l","a","b"," ","f","e","e">>), NaN>>,
     <<NaN, StrCell(<<"P","h","o","t","o","/","V","i","d","e","o"," ","E","q","u","i","p","m","e","n","t"," ","R","o","o","m">>), NaN>>,
     <<StrCell(<<" ">>), StrCell(<<"F","N","A","R"," ","3">>), NaN>>,
     <<NaN, StrCell(<<" "," ">>), StrCell(<<"S","t","u","d","i","o">>)>>}

\* Sheet1 with two columns and with three
SheetWidths == {2, 3}

Sheets ==
    {[k \in 1..Len(g) |-> SubSeq(g[k], 1, w)] :
        g \in UNION {[1..m -> SheetRows] : m \in 0..MaxCourseRows},
        w \in SheetWidths}

(* ------------------------------ inputs --------------------------------- *)

MkRow(c0, c1, c2, c4, b, a, c, av) ==
    <<c0, c1, c2, NaN, c4, b, a, c, av, NaN>>

\* a line item of the undergraduate fund
LineUG ==
    MkRow(IntCell(4118), StrCell(<<"F"," ","A"," ","U","G","R","A","D">>), FloatCell(506),
          StrCell(<<"S","u","p","p","l","i","e","s">>),
          FloatCell(300), FloatCell(100), FloatCell(50), FloatCell(150))

\* a line item of the graduate fund
LineGR ==
    MkRow(IntCell(4119), StrCell(<<"F"," ","A"," ","G","R","A","D">>), FloatCell(561),
          StrCell(<<"C","r","i","t","i","c","s">>),
          FloatCell(800), FloatCell(900), NaN, FloatCell(-100))

\* a row whose fund description names no fund
OtherCtx ==
    MkRow(NaN, StrCell(<<" ","G","E","N","E","R","A","L"," ">>), NaN, NaN, NaN, NaN, NaN, NaN)

Blank == MkRow(NaN, NaN, NaN, NaN, NaN, NaN, NaN, NaN)

\* subtotal rows with an empty fund description
Sub506 ==
    MkRow(NaN, NaN, FloatCell(506), NaN,
          FloatCell(10000), FloatCell(4000), FloatCell(0), FloatCell(6000))

Sub999 ==
    MkRow(NaN, NaN, FloatCell(999), NaN,
          FloatCell(0), FloatCell(500), NaN, FloatCell(-500))

SubText506 ==
    MkRow(NaN, NaN, StrCell(<<"5","0","6">>), NaN,
          FloatCell(1000), FloatCell(900), FloatCell(200), FloatCell(-100))

\* subtotal rows that carry their own fund description
SubOwnUG ==
    MkRow(NaN, StrCell(<<"f"," ","a"," ","u","n","d","e","r","g","r","a","d">>), FloatCell(505), NaN,
          FloatCell(2000), FloatCell(500), FloatCell(100), FloatCell(1400))

\* a subtotal row of the undergraduate fund whose code cell holds 0.0
SubZeroUG ==
    MkRow(NaN, StrCell(<<"F"," ","A"," ","U","G","R","A","D">>), FloatCell(0), NaN,
          FloatCell(700), FloatCell(650), NaN, FloatCell(50))

SubOwnGR ==
    MkRow(NaN, StrCell(<<"F"," ","A"," ","G","R","A","D">>), IntCell(777), NaN,
          FloatCell(600), FloatCell(0), NaN, FloatCell(600))

SubOwnOther ==
    MkRow(NaN, StrCell(<<" ","G","E","N","E","R","A","L"," ">>), FloatCell(507), NaN,
          FloatCell(400), FloatCell(100), NaN, FloatCell(300))

\* the TOTAL EXPENDITURES row: budget and actuals, no other amount
TotalExpRow ==
    MkRow(StrCell(<<"T","O","T","A","L"," ","E","X","P","E","N","D","I","T","U","R","E","S">>), NaN, NaN, NaN,
          FloatCell(4241604), FloatCell(2000000), NaN, NaN)

CurrentExpenseHeader ==
    MkRow(StrCell(<<"C","U","R","R","E","N","T"," ","E","X","P","E","N","S","E">>), NaN, NaN, NaN, NaN, NaN, NaN, NaN)

\* rows of the compensation and totals part of the sheet
AcademicRow ==
    MkRow(NaN, NaN, NaN, StrCell(<<"A","c","a","d","e","m","i","c"," ","S","a","l","a","r","i","e","s">>),
          FloatCell(5000), FloatCell(2500), FloatCell(500), FloatCell(2000))

NonAcademicRow ==
    MkRow(NaN, NaN, NaN, StrCell(<<"N","o","n","-","A","c","a","d","e","m","i","c"," ","S","a","l","a","r","i","e","s">>),
          FloatCell(3000), FloatCell(3100), NaN, FloatCell(-100))

CETotalRow ==
    MkRow(StrCell(<<"S","u","b","t","o","t","a","l"," ","-"," ","C","u","r","r","e","n","t"," ","E","x","p","e","n","s","e">>), NaN, NaN, NaN,
          FloatCell(1600), StrCell(<<"1","0","0">>), FloatCell(0), StrCell(<<"n","/","a">>))

TotalExpTieRow ==
    MkRow(StrCell(<<"T","o","t","a","l"," ","E","x","p","e","n","d","i","t","u","r","e","s">>), NaN, NaN, NaN,
          FloatCell(1600), FloatCell(100), FloatCell(0), FloatCell(1500))

TotalExpZeroRow ==
    MkRow(StrCell(<<"T","O","T","A","L"," ","E","X","P","E","N","D","I","T","U","R","E","S">>), NaN, NaN, NaN,
          FloatCell(0), FloatCell(250), NaN, FloatCell(-250))

RowAlphabet ==
    {LineUG, LineGR, OtherCtx, Blank, Sub506, Sub999, SubText506,
     SubOwnUG, SubZeroUG, SubOwnGR, SubOwnOther, TotalExpRow,
     CurrentExpenseHeader}

ContextRows == {LineUG, LineGR, OtherCtx}

EmptyFundSubtotals == {Sub506, Sub999, SubText506}

SummaryRows ==
    {AcademicRow, NonAcademicRow, CETotalRow, TotalExpRow, TotalExpTieRow,
     TotalExpZeroRow}

\* widths of the sheet: narrower than the label column, narrower than
\* the Available column, full
Widths == {4, 8, 10}

SeqsUpTo(S, n) == UNION {[1..m -> S] : m \in 0..n}

Blanks(n) == [k \in 1..n |-> Blank]

\* the first w columns of every row
Truncate(g, w) == [k \in 1..Len(g) |-> SubSeq(g[k], 1, w)]

\* every grid of at most MaxRows rows over the row alphabet, at every width
SmallGrids ==
    {Truncate(g, w) : g \in SeqsUpTo(RowAlphabet, MaxRows), w \in Widths}

\* fund-context rows, a run of blank rows, then one subtotal row
LookbackGrids ==
    {ctx \o Blanks(n) \o <<s>> :
        ctx \in SeqsUpTo(ContextRows, MaxContext),
        n \in 0..MaxGap,
        s \in EmptyFundSubtotals}

\* a row with the undergraduate fund code whose description names the
\* graduate fund only
MisfiledGR ==
    MkRow(IntCell(4118), StrCell(<<"F"," ","A"," ","G","R","A","D">>), FloatCell(562),
          StrCell(<<"T","r","a","v","e","l">>),
          FloatCell(40), FloatCell(10), NaN, FloatCell(30))

\* a row with the graduate fund code whose description names the
\* undergraduate fund
UgradIn4119 ==
    MkRow(IntCell(4119), StrCell(<<"f"," ","a"," ","u","g","r","a","d">>), FloatCell(563),
          StrCell(<<"M","o","d","e","l","s">>),
          FloatCell(70), FloatCell(20), NaN, FloatCell(50))

\* a row with the graduate fund code and no fund in its description
CodeOnlyGR ==
    MkRow(IntCell(4119), StrCell(<<" ","G","E","N","E","R","A","L"," ">>), FloatCell(564),
          StrCell(<<"M","i","s","c">>),
          FloatCell(90), FloatCell(30), NaN, FloatCell(60))

\* rows that meet both, one or none of the two fund-total conditions
FundTotalRows ==
    {LineUG, LineGR, MisfiledGR, UgradIn4119, CodeOnlyGR, SubOwnUG,
     SubOwnGR}

\* the fund rows in every order
FundTotalGrids == SeqsUpTo(FundTotalRows, MaxRows)

\* the compensation and totals rows in every order
SummaryGrids == SeqsUpTo(SummaryRows, MaxSummaryRows)

Grids ==
    SmallGrids \cup LookbackGrids \cup SummaryGrids \cup FundTotalGrids

(* --------------------------- state machine ----------------------------- *)

VARIABLES
    df,           \* the grid read from the workbook
    pc,           \* position in parse_tracking_file / generate_tracking_page
    err,          \* the exception raised, "" when none
    i,            \* loop index of the category loop
    period, academic, nonacademic, ce_total, total_exp,
    ug_cats, grad_cats, ug_total, grad_total,
    built,        \* history: the record built for each subtotal row, with
                  \* its row index and the list it went to
    pct_label,    \* the overall percentage shown on the page
    page,         \* what generate_tracking_page shows
    coerce,       \* a cell, a default and what each safe_float made of them
    pdf,          \* the data of the PDF report and the sections built
    config,       \* fiscal_years.json
    cmd,          \* the last command line run, what it found and its
                  \* exit status
    tracking_html,\* what fy26_tracking.html of the working directory holds
    course        \* the walk over Sheet1 of the course workbook

trackingVars ==
    <<df, pc, err, i, period, academic, nonacademic, ce_total, total_exp,
      ug_cats, grad_cats, ug_total, grad_total, built, pct_label, page>>

coerceVars == <<coerce>>

pdfVars == <<pdf>>

cliVars == <<config, cmd, tracking_html>>

courseVars == <<course>>

vars == <<trackingVars, coerceVars, pdfVars, cliVars, courseVars>>

\* no cell is being coerced
CoerceIdle == coerce = [pc |-> "idle"]

\* no PDF report is being built
PdfIdle == pdf = [pc |-> "idle"]

\* no command line is run
CliIdle ==
    /\ config = NoConfig
    /\ cmd = [prog |-> "none"]
    /\ tracking_html = "absent"

\* no course workbook is being read
CourseIdle == course = [pc |-> "idle"]

Init ==
    /\ df \in Grids
    /\ pc = "period"
    /\ err = ""
    /\ i = 0
    /\ period = <<>>
    /\ academic = EmptyDict
    /\ nonacademic = EmptyDict
    /\ ce_total = EmptyDict
    /\ total_exp = EmptyDict
    /\ ug_cats = <<>>
    /\ grad_cats = <<>>
    /\ ug_total = EmptyDict
    /\ grad_total = EmptyDict
    /\ built = <<>>
    /\ pct_label = <<>>
    /\ page = NoPage
    /\ CoerceIdle
    /\ PdfIdle
    /\ CliIdle
    /\ CourseIdle

\* an exception leaves parse_tracking_file: nothing is returned
Raise(e) ==
    /\ pc' = "raised"
    /\ err' = e
    /\ UNCHANGED <<df, i, period, academic, nonacademic, ce_total, total_exp,
                   ug_cats, grad_cats, ug_total, grad_total, built, pct_label,
                   page>>
    /\ UNCHANGED <<coerceVars, pdfVars, cliVars, courseVars>>

\* line 68: period = safe_str(df.iloc[1, 0])
ReadPeriod ==
    /\ pc = "period"
    /\ IF InGrid(df, 1, 0)
       THEN /\ period' = safe_str(iloc(df, 1, 0))
            /\ pc' = "find"
            /\ UNCHANGED <<df, err, i, academic, nonacademic, ce_total,
                           total_exp, ug_cats, grad_cats, ug_total,
                           grad_total, built, pct_label, page>>
            /\ UNCHANGED <<coerceVars, pdfVars, cliVars, courseVars>>
       ELSE Raise("IndexError")

\* lines 79-87: the four label searches and their rows
FindRows ==
    /\ pc = "find"
    /\ IF find_row_raises(df, 4) \/ find_row_raises(df, 0)
       THEN Raise("IndexError")
       ELSE /\ academic' = RowOrEmpty(df, find_row(df, 4, AcademicLabel))
            /\ nonacademic' =
                   RowOrEmpty(df, find_row(df, 4, NonAcademicLabel))
            /\ ce_total' = RowOrEmpty(df, find_row(df, 0, CETotalLabel))
            /\ total_exp' = RowOrEmpty(df, find_row(df, 0, TotalExpLabel))
            /\ pc' = "cats"
            /\ i' = 0
            /\ UNCHANGED <<df, err, period, ug_cats, grad_cats, ug_total,
                           grad_total, built, pct_label, page>>
            /\ UNCHANGED <<coerceVars, pdfVars, cliVars, courseVars>>

\* lines 119-145: one iteration of the category loop
CategoryRow ==
    /\ pc = "cats"
    /\ i < NRows(df)
    /\ i' = i + 1
    /\ IF IsSubtotalRow(df, i)
       THEN LET r == category_record(df, i)
                g == FundGroup(df, i)
            IN  /\ ug_cats' = IF g = "ug" THEN list_append(ug_cats, r)
                              ELSE ug_cats
                /\ grad_cats' = IF g = "grad" THEN list_append(grad_cats, r)
                                ELSE grad_cats
                /\ built' = Append(built, [src |-> i, r |-> r, to |-> g])
       ELSE UNCHANGED <<ug_cats, grad_cats, built>>
    /\ UNCHANGED <<df, pc, err, period, academic, nonacademic, ce_total,
                   total_exp, ug_total, grad_total, pct_label, page>>
    /\ UNCHANGED <<coerceVars, pdfVars, cliVars, courseVars>>

\* lines 147-173: the fund-total loop and the returned dict
FundTotals ==
    /\ pc = "cats"
    /\ i = NRows(df)
    /\ ug_total' =
           LastRowDict(df, {k \in 0..(NRows(df) - 1) : IsUgTotalRow(df, k)},
                       "Undergraduate Total")
    /\ grad_total' =
           LastRowDict(df, {k \in 0..(NRows(df) - 1) : IsGradTotalRow(df, k)},
                       "Graduate Total")
    /\ pc' = "done"
    /\ UNCHANGED <<df, err, i, period, academic, nonacademic, ce_total,
                   total_exp, ug_cats, grad_cats, built, pct_label, page>>
    /\ UNCHANGED <<coerceVars, pdfVars, cliVars, courseVars>>

\* generate_tracking_page: the overall percentage, the category tables
\* and the cards; a division by zero leaves it as an exception
GenerateTrackingPage ==
    /\ pc = "done"
    /\ LET p == page_of(total_exp, academic, nonacademic, ce_total,
                        ug_total, grad_total, ug_cats, grad_cats)
       IN  IF ZeroDivisionError \in bars_of(p)
           THEN /\ pc' = "raised"
                /\ err' = "ZeroDivisionError"
                /\ UNCHANGED <<pct_label, page>>
           ELSE /\ pct_label' \in
                       pct_labels(pct(Get(total_exp, "actuals", 0),
                                      Get(total_exp, "budget", 0)))
                /\ page' = p
                /\ pc' = "rendered"
                /\ UNCHANGED err
    /\ UNCHANGED <<df, i, period, academic, nonacademic, ce_total,
                   total_exp, ug_cats, grad_cats, ug_total, grad_total,
                   built>>
    /\ UNCHANGED <<coerceVars, pdfVars, cliVars, courseVars>>

Next ==
    \/ ReadPeriod
    \/ FindRows
    \/ CategoryRow
    \/ FundTotals
    \/ GenerateTrackingPage

Spec == Init /\ [][Next]_vars

(* ------------------- state machine: cell coercion ---------------------- *)

\* no tracking workbook is being parsed
TrackingIdle ==
    /\ df = <<>>
    /\ pc = "idle"
    /\ err = ""
    /\ i = 0
    /\ period = <<>>
    /\ academic = EmptyDict
    /\ nonacademic = EmptyDict
    /\ ce_total = EmptyDict
    /\ total_exp = EmptyDict
    /\ ug_cats = <<>>
    /\ grad_cats = <<>>
    /\ ug_total = EmptyDict
    /\ grad_total = EmptyDict
    /\ built = <<>>
    /\ pct_label = <<>>
    /\ page = NoPage

\* a cell of a sheet and the default its reader passes
InitCoerce ==
    /\ \E c \in CoerceCells, d \in CoerceDefaults :
           coerce = [pc |-> "cell", value |-> c, default |-> d,
                     tracking |-> NotCalled, fiscal |-> NotCalled,
                     fy26 |-> NotCalled]
    /\ TrackingIdle
    /\ PdfIdle
    /\ CliIdle
    /\ CourseIdle

\* generate_tracking.py: safe_float(v, default)
CoerceTracking ==
    /\ coerce.pc = "cell"
    /\ coerce.tracking = NotCalled
    /\ coerce' = [coerce EXCEPT
                      !.tracking = safe_float_tracking(coerce.value,
                                                       coerce.default)]
    /\ UNCHANGED <<trackingVars, pdfVars, cliVars, courseVars>>

\* generate_fiscal_year.py: safe_float(value, default)
CoerceFiscalYear ==
    /\ coerce.pc = "cell"
    /\ coerce.fiscal = NotCalled
    /\ coerce' = [coerce EXCEPT
                      !.fiscal = safe_float_fiscal(coerce.value,
                                                   coerce.default)]
    /\ UNCHANGED <<trackingVars, pdfVars, cliVars, courseVars>>

\* generate_fy26.py: safe_float(value, default), the same text
CoerceFY26 ==
    /\ coerce.pc = "cell"
    /\ coerce.fy26 = NotCalled
    /\ coerce' = [coerce EXCEPT
                      !.fy26 = safe_float_fiscal(coerce.value,
                                                 coerce.default)]
    /\ UNCHANGED <<trackingVars, pdfVars, cliVars, courseVars>>

NextCoerce ==
    \/ CoerceTracking
    \/ CoerceFiscalYear
    \/ CoerceFY26

SpecCoerce == InitCoerce /\ [][NextCoerce]_vars

(* --------------------- state machine: PDF report ----------------------- *)

\* generate_pdf is started on a workbook
InitPdf ==
    /\ \E s \in PdfSheets :
           pdf = [pc |-> "load", sheet |-> s, data |-> EmptyDict,
                  story |-> EmptyDict, err |-> ""]
    /\ TrackingIdle
    /\ CoerceIdle
    /\ CliIdle
    /\ CourseIdle

\* a section builder ran: its percentages join the story, or the
\* division by zero leaves generate_pdf as an exception
PdfSection(name, shares, next) ==
    IF ZeroDivisionError \in Values(shares)
    THEN pdf' = [pdf EXCEPT !.pc = "raised", !.err = "ZeroDivisionError"]
    ELSE pdf' = [pdf EXCEPT !.pc = next,
                            !.story = [n \in DOMAIN pdf.story \cup {name} |->
                                          IF n = name THEN shares
                                          ELSE pdf.story[n]]]

\* load_data: every cell through sf, the total budget as written
LoadData ==
    /\ pdf.pc = "load"
    /\ pdf' = [pdf EXCEPT
                  !.pc = "master",
                  !.data = [k \in SummaryKeys \cup {"total_budget"} |->
                               IF k = "total_budget" THEN total_budget
                               ELSE sf(pdf.sheet[k])]]
    /\ UNCHANGED <<trackingVars, coerceVars, cliVars, courseVars>>

\* story += build_master_budget(data, styles)
BuildMasterBudget ==
    /\ pdf.pc = "master"
    /\ PdfSection("master", master_budget(pdf.data), "compensation")
    /\ UNCHANGED <<trackingVars, coerceVars, cliVars, courseVars>>

\* story += build_compensation(data, styles)
BuildCompensation ==
    /\ pdf.pc = "compensation"
    /\ PdfSection("compensation", compensation(pdf.data), "expenses")
    /\ UNCHANGED <<trackingVars, coerceVars, cliVars, courseVars>>

\* story += build_current_expenses(data, styles)
BuildCurrentExpenses ==
    /\ pdf.pc = "expenses"
    /\ PdfSection("expenses", current_expenses(pdf.data), "build")
    /\ UNCHANGED <<trackingVars, coerceVars, cliVars, courseVars>>

\* the course detail is added and doc.build writes the file
BuildDocument ==
    /\ pdf.pc = "build"
    /\ pdf' = [pdf EXCEPT !.pc = "saved"]
    /\ UNCHANGED <<trackingVars, coerceVars, cliVars, courseVars>>

NextPdf ==
    \/ LoadData
    \/ BuildMasterBudget
    \/ BuildCompensation
    \/ BuildCurrentExpenses
    \/ BuildDocument

SpecPdf == InitPdf /\ [][NextPdf]_vars

(* -------------------- state machine: command lines --------------------- *)

\* a working directory without fiscal_years.json, nothing run yet
InitCli ==
    /\ config = NoConfig
    /\ cmd = [prog |-> "none"]
    /\ tracking_html = "absent"
    /\ TrackingIdle
    /\ CoerceIdle
    /\ PdfIdle
    /\ CourseIdle

\* add_fiscal_year.py without a command; the exit status of a run is 1
\* after sys.exit(1) and after an exception nothing catches, 0 when main
\* returns
AddUsage ==
    /\ cmd' = [prog |-> "add_fiscal_year.py", argv |-> <<>>,
               exit |-> 1, before |-> config]
    /\ UNCHANGED <<config, tracking_html>>
    /\ UNCHANGED <<trackingVars, coerceVars, pdfVars, courseVars>>

\* add_fiscal_year.py list
ListFiscalYears ==
    /\ cmd' = [prog |-> "add_fiscal_year.py", argv |-> <<ListCommand>>,
               exit |-> 0, before |-> config,
               current |-> {k \in 1..Len(config.fiscal_years) :
                               config.fiscal_years[k].year
                                   = config.current_fiscal_year}]
    /\ UNCHANGED <<config, tracking_html>>
    /\ UNCHANGED <<trackingVars, coerceVars, pdfVars, courseVars>>

\* add_fiscal_year.py current [year]
SetCurrentYear ==
    \E argv \in {<<CurrentCommand>>}
                \cup {<<CurrentCommand, c>> : c \in CurrentCodes} :
        /\ IF Len(argv) < 2 \/ ~config.present
           THEN /\ cmd' = [prog |-> "add_fiscal_year.py", argv |-> argv,
                           exit |-> 1, before |-> config]
                /\ UNCHANGED <<config, tracking_html>>
           ELSE /\ config' = [config EXCEPT
                                 !.current_fiscal_year = Upper(argv[2])]
                /\ UNCHANGED tracking_html
                /\ cmd' = [prog |-> "add_fiscal_year.py", argv |-> argv,
                           exit |-> 0, before |-> config]
        /\ UNCHANGED <<trackingVars, coerceVars, pdfVars, courseVars>>

\* add_fiscal_year.py year [budget file]: main calls add_fiscal_year and
\* returns, whatever add_fiscal_year returned
AddFiscalYear ==
    \E argv \in {<<y>> : y \in YearCodes}
                \cup {<<y, f>> : y \in YearCodes, f \in BudgetPaths},
       found \in BOOLEAN :
        /\ IF Len(argv) < 2
           THEN /\ cmd' = [prog |-> "add_fiscal_year.py", argv |-> argv,
                           exit |-> 1, before |-> config]
                /\ UNCHANGED <<config, tracking_html>>
           ELSE LET r == add_fiscal_year(config, argv[1], argv[2], found)
                IN  /\ config' = r.config
                    /\ UNCHANGED tracking_html
                    /\ cmd' = [prog |-> "add_fiscal_year.py",
                               argv |-> argv, found |-> found,
                               ret |-> r.ret,
                               exit |-> IF r.ret = "ValueError" THEN 1
                                        ELSE 0,
                               before |-> config]
        /\ UNCHANGED <<trackingVars, coerceVars, pdfVars, courseVars>>

\* generate_tracking_view: the file the placeholder page of a year is
\* written to
tracking_view_file(year) == Lower(year) \o <<"_","t","r","a","c","k","i","n","g",".","h","t","m","l">>

\* the file generate_tracking.py writes its page to
TrackingPageFile == <<"f","y","2","6","_","t","r","a","c","k","i","n","g",".","h","t","m","l">>

\* generate_budget_view returns True for the entry: its master budget file
\* is one of those that can be read
budget_view(fy, readable) == fy.master_budget_file \in readable

\* generate_fiscal_year.py [target]: readable are the budget files
\* extract_budget_from_master can read; the return values of the view
\* generators are not looked at
GenerateFiscalYear ==
    \E argv \in {<<>>} \cup {<<t>> : t \in Targets},
       readable \in SUBSET BudgetPaths :
        /\ IF Len(argv) < 1 \/ ~config.present
           THEN cmd' = [prog |-> "generate_fiscal_year.py", argv |-> argv,
                        exit |-> 1, before |-> config]
           ELSE LET target == Upper(argv[1])
                    all == {config.fiscal_years[k] :
                               k \in 1..Len(config.fiscal_years)}
                    chosen == IF target = <<"A","L","L">> THEN all
                              ELSE {fy \in all : fy.year = target}
                IN  IF target # <<"A","L","L">> /\ chosen = {}
                    THEN cmd' = [prog |-> "generate_fiscal_year.py",
                                 argv |-> argv, exit |-> 1,
                                 before |-> config]
                    ELSE cmd' = [prog |-> "generate_fiscal_year.py",
                                 argv |-> argv, readable |-> readable,
                                 budget_pages |->
                                     {fy.year : fy \in
                                         {e \in chosen :
                                             budget_view(e, readable)}},
                                 failed |->
                                     {fy.year : fy \in
                                         {e \in chosen :
                                             ~budget_view(e, readable)}},
                                 placeholder_pages |->
                                     {fy.year : fy \in chosen},
                                 exit |-> 0, before |-> config]
        /\ tracking_html' =
               IF /\ "placeholder_pages" \in DOMAIN cmd'
                  /\ \E y \in cmd'.placeholder_pages :
                         tracking_view_file(y) = TrackingPageFile
               THEN "placeholder"
               ELSE tracking_html
        /\ UNCHANGED config
        /\ UNCHANGED <<trackingVars, coerceVars, pdfVars, courseVars>>

\* generate_tracking.py, run with the dashboard directory as the working
\* directory of the other commands: found tells whether the tracking
\* directory holds a workbook, outcome how parsing and rendering it end
GenerateTracking ==
    \E found \in BOOLEAN, outcome \in {"page", "IndexError"} :
        /\ cmd' = [prog |-> "generate_tracking.py", argv |-> <<>>,
                   found |-> found,
                   ret |-> IF ~found THEN "FileNotFoundError" ELSE outcome,
                   exit |-> IF found /\ outcome = "page" THEN 0 ELSE 1,
                   before |-> config]
        /\ tracking_html' =
               IF found /\ outcome = "page" THEN "data" ELSE tracking_html
        /\ UNCHANGED config
        /\ UNCHANGED <<trackingVars, coerceVars, pdfVars, courseVars>>

NextCli ==
    \/ AddUsage
    \/ ListFiscalYears
    \/ SetCurrentYear
    \/ AddFiscalYear
    \/ GenerateFiscalYear
    \/ GenerateTracking

SpecCli == InitCli /\ [][NextCli]_vars

(* -------------------- state machine: Sheet1 walks ---------------------- *)

\* both programs are about to read Sheet1 of the same workbook
InitCourse ==
    /\ \E s \in Sheets :
           course = [pc |-> "walk", sheet |-> s,
                     i |-> 0, extract |-> extract_start,
                     j |-> 0, load |-> load_data_start]
    /\ TrackingIdle
    /\ CoerceIdle
    /\ PdfIdle
    /\ CliIdle

\* generate_course_studio_detail.py, extract_course_data: the next row
ExtractCourseRow ==
    /\ course.pc = "walk"
    /\ course.i < NRows(course.sheet)
    /\ course' = [course EXCEPT
                     !.extract = extract_course_row(
                                     @, read_excel(course.sheet), course.i),
                     !.i = @ + 1]
    /\ UNCHANGED <<trackingVars, coerceVars, pdfVars, cliVars>>

\* generate_pdf_report.py, load_data: the next row of the Sheet1 loop
LoadDataRow ==
    /\ course.pc = "walk"
    /\ course.j < NRows(course.sheet)
    /\ course' = [course EXCEPT
                     !.load = load_data_row(
                                  @, read_excel_na_filter_off(course.sheet),
                                  course.j),
                     !.j = @ + 1]
    /\ UNCHANGED <<trackingVars, coerceVars, pdfVars, cliVars>>

\* both loops have ended: the mappings are returned
CourseWalksEnd ==
    /\ course.pc = "walk"
    /\ course.i = NRows(course.sheet)
    /\ course.j = NRows(course.sheet)
    /\ course' = [course EXCEPT !.pc = "returned"]
    /\ UNCHANGED <<trackingVars, coerceVars, pdfVars, cliVars>>

NextCourse ==
    \/ ExtractCourseRow
    \/ LoadDataRow
    \/ CourseWalksEnd

SpecCourse == InitCourse /\ [][NextCourse]_vars

(* ------------------------- claims: helpers ------------------------------ *)

\* the text of the code cell (column 2) of row k
CodeText(k) == safe_str(iloc(df, k, 2))

\* the text of the fund-description cell (column 1) of row k
FundText(k) == safe_str(iloc(df, k, 1))

\* a text with one trailing ".0" removed
StripDotZero(t) ==
    IF EndsWith(t, DotZero) THEN SubSeq(t, 1, Len(t) - 2) ELSE t

\* a fund description names the undergraduate fund / the graduate fund
SaysUndergrad(t) ==
    Contains(Upper(t), UNDERGRAD) \/ Contains(Upper(t), UGRAD)

SaysGrad(t) == Contains(Upper(t), GRAD)

HasFundContext(k) == SaysUndergrad(FundText(k)) \/ SaysGrad(FundText(k))

ContextGroup(k) == IF SaysUndergrad(FundText(k)) THEN "ug" ELSE "grad"

\* the records the history says were appended to list g, in order
Appended(g) ==
    LET IsG(e) == e.to = g
        sel == SelectSeq(built, IsG)
    IN  [k \in 1..Len(sel) |-> sel[k].r]

\* the two lists are what the history says was appended to them
ListsMatchHistory ==
    /\ ug_cats = Appended("ug")
    /\ grad_cats = Appended("grad")

Printmaking == <<"P","r","i","n","t","m","a","k","i","n","g">>

(* ------------------------------ claims --------------------------------- *)

\* C1: for every subtotal row whose code cell, with ".0" appended when it
\* does not already end in ".0", is a key of cat_map, the record built for
\* the row has the mapped name; "506.0" and "506" both give "Printmaking".
C1_MappedName ==
    \A k \in 1..Len(built) :
        LET code == CodeText(built[k].src)
            key  == IF EndsWith(code, DotZero) THEN code
                    ELSE code \o DotZero
        IN  /\ key \in cat_map_keys =>
                   \E m \in 1..Len(cat_map_items) :
                       /\ cat_map_items[m][1] = key
                       /\ built[k].r.name = cat_map_items[m][2]
            /\ code \in {<<"5","0","6",".","0">>, <<"5","0","6">>} => built[k].r.name = Printmaking

\* C1 witness: a subtotal row whose code cell reads "506", without ".0",
\* was given the name "Printmaking" and appended to the undergraduate list
C1_Witness ==
    \E k \in 1..Len(built) :
        /\ CodeText(built[k].src) = <<"5","0","6">>
        /\ built[k].r.name = Printmaking
        /\ built[k].to = "ug"
        /\ \E m \in 1..Len(ug_cats) : ug_cats[m] = built[k].r

\* C2: for every subtotal row whose code is not a key of cat_map, the name
\* is "Section " followed by the code with its trailing ".0" stripped
\* ("999.0" gives "Section 999").
C2_SectionNameStripped ==
    \A k \in 1..Len(built) :
        LET code == CodeText(built[k].src)
            key  == IF EndsWith(code, DotZero) THEN code
                    ELSE code \o DotZero
        IN  key \notin cat_map_keys =>
                built[k].r.name = SectionPrefix \o StripDotZero(code)

\* C3: the code stored in every category record is the code cell's text
\* with a trailing ".0" stripped ("506.0" is stored as "506").
C3_CodeStripped ==
    \A k \in 1..Len(built) :
        built[k].r.section_code = StripDotZero(CodeText(built[k].src))

\* C4: a subtotal row with a non-empty fund description goes to the
\* undergraduate list only when the description contains UNDERGRAD or
\* UGRAD (any case), otherwise to the graduate list only when it contains
\* GRAD; no record goes to both lists.
C4_OwnFundGroup ==
    /\ ListsMatchHistory
    /\ Len(ug_cats) + Len(grad_cats) <= Len(built)
    /\ \A k \in 1..Len(built) :
           LET t == FundText(built[k].src)
           IN  t # <<>> =>
                   /\ SaysUndergrad(t) => built[k].to = "ug"
                   /\ (~SaysUndergrad(t) /\ SaysGrad(t)) =>
                          built[k].to = "grad"

\* C4 witness: a subtotal row described "f a undergrad" (which contains
\* "grad") is in the undergraduate list and the graduate list is empty
C4_Witness ==
    /\ pc = "done"
    /\ grad_cats = <<>>
    /\ \E k \in 1..Len(built) :
           /\ FundText(built[k].src) = <<"f"," ","a"," ","u","n","d","e","r","g","r","a","d">>
           /\ built[k].to = "ug"
           /\ ug_cats = <<built[k].r>>

\* the distances d >= 1 at which a row above row k carries fund context
ContextDistances(k) == {d \in 1..k : HasFundContext(k - d)}

\* the distances d >= 1 at which a row above row k has a non-empty fund cell
NonEmptyDistances(k) == {d \in 1..k : FundText(k - d) # <<>>}

Least(S) == CHOOSE d \in S : \A e \in S : d <= e

\* C5: a subtotal row with an empty fund description, with fund context
\* on some row 1 to 10 rows above it, is assigned to the group of the
\* nearest such row; a context row exactly 10 rows above still decides.
C5_LookbackWithinTen ==
    \A k \in 1..Len(built) :
        LET src  == built[k].src
            near == ContextDistances(src) \cap 1..10
        IN  (FundText(src) = <<>> /\ near # {}) =>
                built[k].to = ContextGroup(src - Least(near))

\* C6: a subtotal row with an empty fund description whose last preceding
\* row with fund context lies more than 10 rows above it is appended to
\* neither list.
C6_BeyondTenDropped ==
    /\ ListsMatchHistory
    /\ \A k \in 1..Len(built) :
           LET src == built[k].src
           IN  (/\ FundText(src) = <<>>
                /\ ContextDistances(src) # {}
                /\ Least(ContextDistances(src)) > 10) =>
                   built[k].to = "none"

\* C6 witness: the only fund context is 11 rows above the subtotal row,
\* the parse has returned and both lists are empty
C6_Witness ==
    /\ pc = "done"
    /\ ug_cats = <<>>
    /\ grad_cats = <<>>
    /\ \E k \in 1..Len(built) :
           /\ FundText(built[k].src) = <<>>
           /\ ContextDistances(built[k].src) # {}
           /\ Least(ContextDistances(built[k].src)) = 11
           /\ built[k].to = "none"

\* C7 as stated: in the lookback the nearest prior row with a non-empty
\* fund cell decides; when that cell names no fund the category is
\* dropped, even if a row farther up in the window names one.
C7_NearestNonEmptyDecides ==
    \A k \in 1..Len(built) :
        LET src  == built[k].src
            near == NonEmptyDistances(src) \cap 1..10
        IN  (/\ FundText(src) = <<>>
             /\ near # {}
             /\ ~HasFundContext(src - Least(near))) =>
                built[k].to = "none"

\* C7 amended: in the lookback the nearest row, among the 9 rows above,
\* whose fund cell names a fund decides; a nearer non-empty cell that
\* names no fund is skipped; with no such row the category is dropped.
C7_NearestLabelDecides ==
    /\ ListsMatchHistory
    /\ \A k \in 1..Len(built) :
           LET src  == built[k].src
               near == ContextDistances(src) \cap 1..9
           IN  FundText(src) = <<>> =>
                   built[k].to = IF near = {} THEN "none"
                                 ELSE ContextGroup(src - Least(near))

\* C7 witness: the row just above the subtotal row has a non-empty fund
\* cell naming no fund, the row above that names the undergraduate fund,
\* and the category went to the undergraduate list
C7_Witness ==
    \E k \in 1..Len(built) :
        LET src == built[k].src
        IN  /\ FundText(src) = <<>>
            /\ src >= 2
            /\ FundText(src - 1) # <<>>
            /\ ~HasFundContext(src - 1)
            /\ SaysUndergrad(FundText(src - 2))
            /\ built[k].to = "ug"
            /\ ug_cats # <<>>

CurrentExpensePattern == <<"C","U","R","R","E","N","T"," ","E","X","P","E","N","S","E">>

CurrentExpenseLower == Lower(CurrentExpensePattern)

\* no cell of the grid matches "CURRENT EXPENSE", in any case (only a text
\* cell can: the text of a number or of a missing cell has no letter of it)
NoCurrentExpenseCell ==
    \A r \in 1..Len(df) : \A c \in 1..Len(df[r]) :
        df[r][c].k = "str" =>
            ~Contains(Lower(safe_str(df[r][c])), CurrentExpenseLower)

\* row k has the shape of a subtotal row: blank column 0, a code in
\* column 2, blank column 4
SubtotalShaped(k) ==
    /\ safe_str(iloc(df, k, 0)) = <<>>
    /\ CodeText(k) # <<>>
    /\ safe_str(iloc(df, k, 4)) = <<>>

\* a subtotal-shaped row that resolves to a fund: by its own fund cell,
\* or, that cell being empty, by a fund label on one of the 9 rows above
FundedSubtotal(k) ==
    /\ SubtotalShaped(k)
    /\ \/ HasFundContext(k)
       \/ /\ FundText(k) = <<>>
          /\ ContextDistances(k) \cap 1..9 # {}

ExtractedRecords ==
    {d \in {academic, nonacademic, ce_total, total_exp, ug_total,
            grad_total} : d # EmptyDict}
    \cup {ug_cats[k] : k \in 1..Len(ug_cats)}
    \cup {grad_cats[k] : k \in 1..Len(grad_cats)}

\* C9 as stated: the available amount of every extracted record equals
\* its budget minus its actuals minus its committed amount.
C9_AvailableComputed ==
    \A d \in ExtractedRecords :
        d.available = d.budget - d.actuals - d.committed

\* the number in column j of row k as the sheet holds it: 0 for a column
\* the sheet does not have, for a missing cell and for text that is no
\* number
SheetAmount(k, j) ==
    IF j >= NCols(df) THEN 0
    ELSE LET c == iloc(df, k, j)
         IN  IF c.k \in {"float", "int"} THEN c.v
             ELSE IF c.k = "str" /\ IsNumberText(c.s)
                  THEN NumberTextVal(c.s)
                  ELSE 0

\* record d carries the four amounts of row k as the sheet holds them
AmountsOfRow(d, k) ==
    /\ d.budget = SheetAmount(k, 5)
    /\ d.actuals = SheetAmount(k, 6)
    /\ d.committed = SheetAmount(k, 7)
    /\ d.available = SheetAmount(k, 8)

\* C9 amended: the available amount of every extracted record is the
\* value of the Available cell (column 8) of its row, 0 when that cell is
\* missing or no number or the sheet has fewer than 9 columns; it is not
\* computed from the budget, actuals and committed amounts. The TOTAL
\* EXPENDITURES row with budget 4241604, actuals 2000000 and no other
\* amount yields available 0.
C9_AvailableFromSheet ==
    /\ \A k \in 1..Len(built) : AmountsOfRow(built[k].r, built[k].src)
    /\ \A d \in ExtractedRecords :
           \E k \in 0..(NRows(df) - 1) : AmountsOfRow(d, k)
    /\ (total_exp # EmptyDict /\ df[find_row(df, 0, TotalExpLabel) + 1]
            = SubSeq(TotalExpRow, 1, NCols(df))) =>
           (total_exp.budget = 4241604 /\ total_exp.actuals = 2000000
            /\ total_exp.available = 0)

\* C9 witness: total expenditures extracted with budget 4241604, actuals
\* 2000000, committed 0 and available 0, next to a category whose
\* available amount is what its row's Available cell holds, 6000
C9_Witness ==
    /\ total_exp # EmptyDict
    /\ total_exp.budget = 4241604
    /\ total_exp.actuals = 2000000
    /\ total_exp.committed = 0
    /\ total_exp.available = 0
    /\ \E k \in 1..Len(built) :
           /\ built[k].r.available = 6000
           /\ iloc(df, built[k].src, 8) = FloatCell(6000)

ScenarioBTotals ==
    /\ total_exp # EmptyDict
    /\ total_exp.budget = 4241604
    /\ total_exp.actuals = 2000000

\* C10 as stated: for total expenditures with budget 4241604 and actuals
\* 2000000 the percentage shown on the tracking page is "47.1%".
C10_PctLabel471 ==
    (pc = "rendered" /\ ScenarioBTotals) => pct_label = <<"4","7",".","1","%">>

\* C10 amended: for total expenditures with budget 4241604 and actuals
\* 2000000 the percentage shown on the tracking page is "47.2%": the
\* quotient 47.15... is rounded to the nearest tenth, not truncated.
C10_PctLabel472 ==
    (pc = "rendered" /\ ScenarioBTotals) => pct_label = <<"4","7",".","2","%">>

\* C10 witness: the page was generated for those totals and shows "47.2%"
C10_Witness ==
    /\ pc = "rendered"
    /\ ScenarioBTotals
    /\ pct_label = <<"4","7",".","2","%">>
(* ------------------------- claims C11 to C20 --------------------------- *)

\* the records the page draws a bar for, each with its bar
BarsDrawn ==
    {<<ug_cats[k], page.ug_table.rows[k].progress>> : k \in 1..Len(ug_cats)}
    \cup {<<grad_cats[k], page.grad_table.rows[k].progress>> :
             k \in 1..Len(grad_cats)}
    \cup {<<total_exp, page.total_bar>>, <<academic, page.ac_bar>>,
          <<nonacademic, page.na_bar>>}

\* C11: no division by zero is ever raised while the page is built, and on
\* the page every record whose budget is 0 has the "No budget allocated"
\* placeholder with its actuals as its bar, whatever its actuals and
\* committed amounts are, and pct gives None for it: the overall
\* percentage reads "N/A" when the total budget is 0
C11_ZeroBudgetPlaceholder ==
    /\ err # "ZeroDivisionError"
    /\ pc = "rendered" =>
          /\ \A e \in BarsDrawn :
                 Get(e[1], "budget", 0) = 0 =>
                     /\ e[2] = NoBudgetBar(Get(e[1], "actuals", 0))
                     /\ pct(Get(e[1], "actuals", 0), 0).none
          /\ Get(total_exp, "budget", 0) = 0 => pct_label = NALabel

\* a page is rendered with a category whose budget is 0 and whose actuals
\* are not
C11_Witness ==
    /\ pc = "rendered"
    /\ \E k \in 1..Len(ug_cats) :
           /\ ug_cats[k].budget = 0
           /\ ug_cats[k].actuals # 0
           /\ page.ug_table.rows[k].progress.kind = "no-budget"
\* C14 as stated: for a grid with fewer than 2 rows or fewer than 5
\* columns, the period read, the label searches and the scans read "" at
\* the positions outside the grid and complete: no exception is raised.
C14_OutOfGridReadsEmpty ==
    (NRows(df) < 2 \/ NCols(df) < 5) => pc # "raised"

\* row k of the grid carries pattern in column col (a position outside
\* the grid carries nothing)
LabelAt(k, col, pattern) ==
    /\ InGrid(df, k, col)
    /\ Contains(Lower(safe_str(iloc(df, k, col))), Lower(pattern))

\* pattern is in column col of no row of the grid
LabelAbsent(col, pattern) ==
    ~\E k \in 0..(NRows(df) - 1) : LabelAt(k, col, pattern)

\* C15 as stated: when the "TOTAL EXPENDITURES" label is in no row of the
\* grid (nor any other label, in the grids without rows), the parse returns
\* without raising with an empty record for it, and the page is generated
\* from it with "$0.00" amounts, "N/A" as overall percentage and the
\* no-budget placeholder as overall bar.
C15_AbsentLabelsRenderEmpty ==
    (pc \in {"raised", "done", "rendered"} /\ LabelAbsent(0, TotalExpLabel))
        => /\ pc # "raised"
           /\ total_exp = EmptyDict
           /\ pc = "rendered" =>
                  /\ pct_label = NALabel
                  /\ page.hero = amounts_of(EmptyDict)
                  /\ page.hero.budget = <<"$","0",".","0","0">>
                  /\ page.total_bar = NoBudgetBar(0)
\* the rows of the two rendered category tables
RenderedRows ==
    {page.ug_table.rows[k] : k \in 1..Len(page.ug_table.rows)}
    \cup {page.grad_table.rows[k] : k \in 1..Len(page.grad_table.rows)}

\* C18 as stated: a record extracted with a placeholder code is the source
\* of no row of the rendered undergraduate and graduate category tables.
C18_ExcludedNeverRendered ==
    pc = "rendered" =>
        \A k \in 1..Len(built) :
            built[k].r.section_code \in PlaceholderCodes =>
                table_row(built[k].r) \notin RenderedRows

\* C18 amended: no code is excluded: each rendered category table has
\* exactly one row for each record of its list, in the order of the list,
\* and the lists hold every record that resolved to a fund, so a subtotal
\* row with the code "0.0" is rendered like any other
C18_EveryRecordRendered ==
    pc = "rendered" =>
        /\ ListsMatchHistory
        /\ page.ug_table.rows =
               [k \in 1..Len(ug_cats) |-> table_row(ug_cats[k])]
        /\ page.grad_table.rows =
               [k \in 1..Len(grad_cats) |-> table_row(grad_cats[k])]

\* a page whose undergraduate table has a row for a record with the code
\* "0.0", named by the fallback "Section 0.0"
C18_Witness ==
    /\ pc = "rendered"
    /\ \E k \in 1..Len(ug_cats) :
           /\ ug_cats[k].section_code \in PlaceholderCodes
           /\ page.ug_table.rows[k].name = <<"S","e","c","t","i","o","n"," ","0",".","0">>

\* C19: each list holds, in this order, the records built for the rows
\* that went to it, and the rows records were built from are visited in
\* strictly increasing index: of two records of one list the one from the
\* lower row comes first, whatever their codes, names and amounts
C19_RowOrder ==
    /\ ListsMatchHistory
    /\ \A k \in 1..Len(built) :
           /\ built[k].r = category_record(df, built[k].src)
           /\ \A m \in 1..Len(built) :
                  k < m => built[k].src < built[m].src

\* a list of two different records, the first from the upper row
C19_Witness ==
    /\ pc = "done"
    /\ \E L \in {ug_cats, grad_cats} :
           /\ Len(L) = 2
           /\ L[1] # L[2]
           /\ L[1] = category_record(df, 0)
           /\ L[2] = category_record(df, 1)

\* row k opens a section: one of its cells matches "CURRENT EXPENSE"
SectionStart(k) ==
    \E c \in 1..Len(df[k + 1]) :
        /\ df[k + 1][c].k = "str"
        /\ Contains(Lower(safe_str(df[k + 1][c])), CurrentExpenseLower)

CoerceResults ==
    {r \in {coerce.tracking, coerce.fiscal, coerce.fy26} : r # NotCalled}

\* the results of the fiscal-year and FY26 variants that have been called
FiscalResults ==
    {r \in {coerce.fiscal, coerce.fy26} : r # NotCalled}

\* the cell is a text that float() rejects: not a number
NonNumberText ==
    /\ coerce.value.k = "str"
    /\ ~float_of_text(coerce.value.s).ok

\* the digits of a text, in order
DigitsOf(s) ==
    LET IsDigit(ch) == IndexOf(DigitChars, ch) > 0
    IN  SelectSeq(s, IsDigit)

C12_PercentagesGuarded ==
    /\ err # "ZeroDivisionError"
    /\ pdf.pc # "idle" => pdf.err # "ZeroDivisionError"
\* the last run called add_fiscal_year(year_code, budget_file)
AddCalled == cmd.prog = "add_fiscal_year.py" /\ "ret" \in DOMAIN cmd

\* the last run of generate_fiscal_year.py reached the view generators
ViewsGenerated ==
    cmd.prog = "generate_fiscal_year.py" /\ "failed" \in DOMAIN cmd

\* C16 as stated: a run ends with a non-zero exit status when a required
\* argument is missing, when add_fiscal_year.py is given a budget file
\* that does not exist, when generate_fiscal_year.py cannot read a master
\* budget file it needs, and when generate_tracking.py finds no workbook.
C16_NonZeroOnMissingInput ==
    /\ (cmd.prog = "add_fiscal_year.py" /\ Len(cmd.argv) = 0)
           => cmd.exit # 0
    /\ (cmd.prog = "add_fiscal_year.py" /\ Len(cmd.argv) = 1
            /\ cmd.argv[1] # ListCommand)
           => cmd.exit # 0
    /\ (cmd.prog = "generate_fiscal_year.py" /\ Len(cmd.argv) = 0)
           => cmd.exit # 0
    /\ (AddCalled /\ ~cmd.found) => cmd.exit # 0
    /\ (ViewsGenerated /\ cmd.failed # {}) => cmd.exit # 0
    /\ (cmd.prog = "generate_tracking.py" /\ ~cmd.found) => cmd.exit # 0

\* C17: when add_fiscal_year is called with a budget file that does not
\* exist it returns False and fiscal_years.json is what it was before the
\* run: no entry added, replaced or moved, current_fiscal_year unchanged,
\* and no file created when there was none
C17_MissingFileLeavesConfig ==
    (AddCalled /\ ~cmd.found) =>
        /\ cmd.ret = "False"
        /\ config = cmd.before

\* add_fiscal_year was called with a missing budget file for a year that
\* is configured with another budget file
C17_Witness ==
    /\ AddCalled
    /\ ~cmd.found
    /\ year_code_ok(cmd.argv[1])
    /\ \E k \in 1..Len(config.fiscal_years) :
           /\ config.fiscal_years[k].year = parse_year_code(cmd.argv[1]).year
           /\ config.fiscal_years[k].master_budget_file # cmd.argv[2]

(* ------------------------- claims C21 to C30 --------------------------- *)

\* a record was built for row k
RecordBuiltFor(k) == \E m \in 1..Len(built) : built[m].src = k

\* C21 as stated: a row is classified as a subtotal row exactly when its
\* column 0 is empty, its fund-description column 1 is empty, its code in
\* column 2 is non-empty and not "0.0", and its column 4 is empty; a row
\* whose code cell reads "0.0" yields no category record.
C21_SentinelExcluded ==
    pc \in {"done", "rendered"} =>
        \A k \in 0..(NRows(df) - 1) :
            /\ RecordBuiltFor(k) <=>
                   /\ safe_str(iloc(df, k, 0)) = <<>>
                   /\ FundText(k) = <<>>
                   /\ CodeText(k) # <<>>
                   /\ CodeText(k) \notin PlaceholderCodes
                   /\ safe_str(iloc(df, k, 4)) = <<>>
            /\ CodeText(k) \in PlaceholderCodes =>
                   ~\E m \in 1..Len(built) :
                       built[m].src = k /\ built[m].to \in {"ug", "grad"}

\* C21 amended: a row is classified as a subtotal row exactly when its
\* column 0 is empty, its code in column 2 is non-empty and its column 4 is
\* empty, whatever its fund-description cell holds and whatever the code
\* is: a row whose code reads "0.0" is classified too, and yields a
\* category record when it resolves to a fund
C21_ThreeCellsDecide ==
    pc \in {"done", "rendered"} =>
        \A k \in 0..(NRows(df) - 1) :
            /\ RecordBuiltFor(k) <=> SubtotalShaped(k)
            /\ (CodeText(k) \in PlaceholderCodes /\ FundedSubtotal(k)) =>
                   \E m \in 1..Len(built) :
                       /\ built[m].src = k
                       /\ built[m].to \in {"ug", "grad"}
                       /\ built[m].r.section_code = CodeText(k)

\* the parse returned an undergraduate record for a row whose code cell
\* reads "0.0" and whose fund-description cell is not empty
C21_Witness ==
    /\ pc = "done"
    /\ \E m \in 1..Len(built) :
           /\ built[m].to = "ug"
           /\ CodeText(built[m].src) \in PlaceholderCodes
           /\ FundText(built[m].src) # <<>>
           /\ built[m].r \in {ug_cats[k] : k \in 1..Len(ug_cats)}

\* the label the row right above row k puts in column 4, <<>> when none
InlineLabel(k) == IF k > 0 THEN safe_str(iloc(df, k - 1, 4)) ELSE <<>>

\* the name the code map, or the fallback, gives to the code of row k
NameOfCode(k) ==
    LET key == IF EndsWith(CodeText(k), DotZero) THEN CodeText(k)
               ELSE CodeText(k) \o DotZero
        hits == {n \in 1..Len(cat_map_items) : cat_map_items[n][1] = key}
    IN  IF hits = {} THEN <<"S","e","c","t","i","o","n"," ">> \o CodeText(k)
        ELSE cat_map_items[CHOOSE n \in hits : TRUE][2]

\* C22 as stated: when the row above a subtotal row carries a label in
\* column 4, that label is the name of the record built from the subtotal
\* row; the code map and the fallback name only the other records.
C22_PendingLabelNames ==
    \A m \in 1..Len(built) :
        built[m].r.name =
            IF InlineLabel(built[m].src) # <<>>
            THEN InlineLabel(built[m].src)
            ELSE NameOfCode(built[m].src)

\* C22 amended: no label is carried from row to row: the name of every
\* category record is the name the code map gives to the code of its own
\* row, or "Section {code}" for a code the map does not hold, also when
\* the row above carries a label in column 4
C22_CodeAloneNames ==
    \A m \in 1..Len(built) :
        built[m].r.name = NameOfCode(built[m].src)

\* a record was built for a subtotal row right below a row with a label
\* in column 4, and is named by the code map, not by that label
C22_Witness ==
    /\ pc = "done"
    /\ \E m \in 1..Len(built) :
           /\ built[m].to \in {"ug", "grad"}
           /\ InlineLabel(built[m].src) # <<>>
           /\ built[m].r.name # InlineLabel(built[m].src)
           /\ built[m].r.name = Printmaking
\* row k has the fund code and a fund description of the undergraduate
\* total / of the graduate total
UgQualifies(k) ==
    /\ safe_str(iloc(df, k, 0)) = <<"4","1","1","8">>
    /\ SaysUndergrad(FundText(k))

GradQualifies(k) ==
    /\ safe_str(iloc(df, k, 0)) = <<"4","1","1","9">>
    /\ SaysGrad(FundText(k))

\* the fund total a set of qualifying rows gives: the row dict of the
\* last of them under the given name, the empty record when there is none
TotalFrom(Q, name) ==
    IF Q = {} THEN EmptyDict
    ELSE LET k == CHOOSE q \in Q : \A m \in Q : q >= m
             r == row(df, k)
         IN  [f \in DOMAIN r \cup {"name"} |->
                 IF f = "name" THEN name ELSE r[f]]

\* C23: the undergraduate total is the row dict of a row whose fund code
\* is "4118" and whose description contains "UGRAD" or "UNDERGRAD", the
\* graduate total that of a row whose fund code is "4119" and whose
\* description contains "GRAD", in any case of letters; a row that meets
\* only one of the two conditions is never used, and a total without a
\* qualifying row is the empty record
C23_BothConditions ==
    pc \in {"done", "rendered"} =>
        /\ ug_total =
               TotalFrom({k \in 0..(NRows(df) - 1) : UgQualifies(k)},
                         "Undergraduate Total")
        /\ grad_total =
               TotalFrom({k \in 0..(NRows(df) - 1) : GradQualifies(k)},
                         "Graduate Total")

\* the undergraduate total comes from the upper row although the row
\* below it carries the fund code "4118" too, with a description that
\* names no undergraduate fund
C23_Witness ==
    /\ pc = "done"
    /\ NRows(df) = 2
    /\ UgQualifies(0)
    /\ safe_str(iloc(df, 1, 0)) = <<"4","1","1","8">>
    /\ ~UgQualifies(1)
    /\ ug_total # EmptyDict
    /\ ug_total.budget = row(df, 0).budget
    /\ ug_total.budget # row(df, 1).budget
    /\ grad_total = EmptyDict
\* C24: when the label column holds an "Academic Salaries" row and a
\* "Non-Academic Salaries" row, the academic summary is read from a row
\* labelled "Academic Salaries" and the nonacademic summary from a row
\* labelled "Non-Academic Salaries", whichever of the two comes first
C24_OwnLabelRows ==
    (/\ pc \in {"cats", "done", "rendered"}
     /\ \E k \in 0..(NRows(df) - 1) :
            InGrid(df, k, 4) /\ safe_str(iloc(df, k, 4)) = AcademicLabel
     /\ \E k \in 0..(NRows(df) - 1) :
            InGrid(df, k, 4) /\ safe_str(iloc(df, k, 4)) = NonAcademicLabel)
        => /\ academic # EmptyDict
           /\ nonacademic # EmptyDict
           /\ academic.label = AcademicLabel
           /\ nonacademic.label = NonAcademicLabel

\* the years of the entries of a configuration
YearsOf(cfg) == {cfg.fiscal_years[k].year : k \in 1..Len(cfg.fiscal_years)}

\* the last call of add_fiscal_year wrote the configuration
AddSucceeded == AddCalled /\ cmd.ret = "True"

\* C25: after any sequence of add_fiscal_year calls, whatever the year
\* codes, their "FY"/"fy" prefix and their repetition, fiscal_years holds
\* at most one entry per year; adding a year that is present replaces its
\* entry in place and leaves the number of entries unchanged, adding
\* another year makes the list one entry longer
C25_OneEntryPerYear ==
    /\ \A k, m \in 1..Len(config.fiscal_years) :
           config.fiscal_years[k].full_year
               = config.fiscal_years[m].full_year => k = m
    /\ AddSucceeded =>
           LET year == parse_year_code(cmd.argv[1]).year
           IN  /\ year \in YearsOf(config)
               /\ YearsOf(config) = YearsOf(cmd.before) \cup {year}
               /\ Len(config.fiscal_years) =
                      IF year \in YearsOf(cmd.before)
                      THEN Len(cmd.before.fiscal_years)
                      ELSE Len(cmd.before.fiscal_years) + 1

\* a configured year was added again, under a code spelled with the
\* lower-case prefix and with another budget file, next to another year
C25_Witness ==
    /\ AddSucceeded
    /\ SubSeq(cmd.argv[1], 1, 2) = <<"f","y">>
    /\ Len(cmd.before.fiscal_years) = 2
    /\ Len(config.fiscal_years) = 2
    /\ \E k \in 1..2 :
           /\ cmd.before.fiscal_years[k].year
                  = parse_year_code(cmd.argv[1]).year
           /\ cmd.before.fiscal_years[k].master_budget_file # cmd.argv[2]
           /\ config.fiscal_years[k].master_budget_file = cmd.argv[2]

\* C26: after every successful add_fiscal_year the list is sorted by
\* fiscal year descending, a later year before every earlier one, also
\* when the years have different numbers of digits
C26_SortedByYear ==
    AddSucceeded =>
        \A k, m \in 1..Len(config.fiscal_years) :
            k < m => config.fiscal_years[k].full_year
                         > config.fiscal_years[m].full_year

\* C27: after any sequence of add and set-current commands,
\* current_fiscal_year is empty or the year of some entry of fiscal_years
C27_CurrentIsConfigured ==
    \/ config.current_fiscal_year = <<>>
    \/ config.current_fiscal_year \in YearsOf(config)

\* C30: once generate_tracking.py has written the data-bearing
\* fy26_tracking.html, no later command replaces it with the placeholder
\* page
C30_DataPageKept ==
    [][tracking_html = "data" => tracking_html' # "placeholder"]_vars

\* the sheet as extract_course_data reads it
SheetRead == read_excel(course.sheet)

\* the column-1 entry of row k, empty when the cell is
EntryOf(k) ==
    IF notna(iloc(SheetRead, k, 1))
    THEN Strip(PyStr(iloc(SheetRead, k, 1)))
    ELSE <<>>

\* the category a row names in column 0, empty when it names none
HeaderText(k) ==
    IF notna(iloc(SheetRead, k, 0))
    THEN Strip(PyStr(iloc(SheetRead, k, 0)))
    ELSE <<>>

\* row k has an entry and a category header row at or above it
UnderHeader(k) ==
    /\ EntryOf(k) # <<>>
    /\ \E h \in 0..k : HeaderText(h) # <<>>

\* the category named by the nearest header row at or above row k
CategoryOf(k) ==
    HeaderText(CHOOSE h \in 0..k :
                   /\ HeaderText(h) # <<>>
                   /\ \A m \in (h + 1)..k : HeaderText(m) = <<>>)

\* the rows of the sheet whose entry e belongs to category c
RowsOf(c, e) ==
    {k \in 0..(NRows(SheetRead) - 1) :
        UnderHeader(k) /\ CategoryOf(k) = c /\ EntryOf(k) = e}

\* how often e is among the notes / the course codes a mapping holds
\* for category c
NoteCount(notes, c, e) ==
    Cardinality({m \in 1..Len(Get(notes, c, <<>>)) : notes[c][m] = e})

CodeCount(courses, c, e) ==
    Cardinality({m \in 1..Len(Get(courses, c, <<>>)) :
                    courses[c][m].code = e})

\* C28: in the result of extract_course_data every row with a non-empty
\* column-1 entry at or after the first category header row appears
\* exactly once under the category of the nearest header row at or above
\* it, among the notes if the entry starts with "$" or is
\* "Photo/Video Equipment Room" and among the courses otherwise, also
\* when a header text occurs on more than one row
C28_EveryEntryOnce ==
    course.pc = "returned" =>
        \A h, k \in 0..(NRows(SheetRead) - 1) :
            (HeaderText(h) # <<>> /\ EntryOf(k) # <<>>) =>
                LET c == HeaderText(h)
                    e == EntryOf(k)
                    n == Cardinality(RowsOf(c, e))
                IN  /\ NoteCount(course.extract.category_notes, c, e)
                           = IF is_note(e) THEN n ELSE 0
                    /\ CodeCount(course.extract.categories, c, e)
                           = IF is_note(e) THEN 0 ELSE n

\* C29: the walk of extract_course_data and the Sheet1 loop of load_data
\* return the same category-to-courses and category-to-notes mappings
\* for every sheet, blank and whitespace-only cells included
C29_SameMappings ==
    course.pc = "returned" =>
        /\ course.extract.categories = course.load.cat_courses
        /\ course.extract.category_notes = course.load.cat_notes

====
